---- MODULE Spec2Model ----
\* The interview session engine of backend/routes/interview.py: the session
\* state machine, question pacing, answer intake, finalisation and the
\* hash-chained anti-cheat log with its strike policy.
\*
\* Every handler is an async function; each `await` on the store is a point
\* where another request may run.  A request in flight occupies a slot of
\* `req` and advances one store operation per step.
\*
\* create_session and submit_precheck bind db = get_database(); the other
\* handlers of interview.py test `db is None` on a name the module never
\* binds.  The model takes `db` in every handler to be the connected store
\* that get_database() returns, so that the handlers' own logic is what is
\* checked.  The policy read of anti_cheat_emit passes {"projection": {...}}
\* where the driver expects the projection itself; both the document the
\* call means to get and the one that projection selects are outcomes of the
\* read (PolicyRead).  start_interview and issue_aipt read
\* settings.ttl_aupt where config.py declares ttl_aipt; the model takes the
\* setting to resolve to the AIPT lifetime.  A broadcast is recorded in
\* `emitted` in the step of the store write it follows.  Specification
\* SpecWritten alone resolves `db` as the module does (StartAsWritten).
\*
\* utils/broadcast.py and routes/ws.py are modelled with the rooms of the
\* broker, the WebSocket connections and the calls of broker.emit in flight.
EXTENDS Integers, Sequences, FiniteSets, TLC

(***************************************************************************)
(* Bounds of the model                                                     *)
(***************************************************************************)
NumReq == 2        \* request slots: requests that can be in flight together
MaxN == 1          \* largest config.questionCount a client asks for
MaxQuestions == 3  \* stored questions
MaxAnswers == 2    \* stored answers
MaxEvents == 3     \* stored anti-cheat events
MaxSummaries == 2  \* stored summaries
MaxSeq == 3        \* largest seq a client sends
MaxBatch == 2      \* events in one ingest batch
MaxTime == 6       \* seconds the clock runs
MaxQuanta == 5     \* quanta of token time that elapse
MaxRevoked == 2    \* revocation entries
NumConns == 2      \* WebSocket connections
NumEmits == 2      \* calls of broker.emit
MaxTests == 2      \* tests in one code_eval body

(***************************************************************************)
(* Program constants                                                       *)
(***************************************************************************)
RateWindow == 5          \* seconds between two questions
FsExitPauseAt == 2       \* FS_EXIT count that pauses an Active session
FsExitEndAt == 3         \* FS_EXIT count that seals the session
FaceMissingYellowMax == 2 \* longest FACE_MISSING duration still yellow
TtlIst == 900            \* settings.ttl_ist, seconds
TtlWst == 900            \* settings.ttl_wst
TtlAipt == 600           \* settings.ttl_aipt
TtlUpt == 1200           \* settings.ttl_upt
TtlUserJwt == 3600       \* settings.ttl_user_jwt
RevocationTtl == 3600    \* lifetime of a revoked:<jti> key in Redis
Quantum == 300           \* seconds: every lifetime above is a multiple of it

Slots == 1..NumReq
SessionIds == {"s1", "s2"}
Users == {"u1", "u2"}
NoTime == -1
EmptyHash == <<>>

States == {"PendingPrecheck", "Ready", "Active", "Paused", "Completed", "Ended"}
Terminal == {"Completed", "Ended"}
StrikeTypes == {"SCREENSHOT_ATTEMPT", "FS_EXIT", "TAB_SWITCH", "FACE_MISSING"}
EventTypes == StrikeTypes \cup {"FOCUS"}

VARIABLES
    sessions,   \* collection sessions: _id -> document
    questions,  \* collection questions, in insertion order; _id is the index
    answers,    \* collection answers, in insertion order
    events,     \* collection anti_cheat_events, in insertion order
    strikes,    \* collection strikes, in insertion order
    summaries,  \* collection summaries, in insertion order
    now,        \* datetime.utcnow(), in seconds
    req,        \* the requests in flight, one per slot
    emitted,    \* the (room, type) pairs broker.emit has been called with
    tokens,     \* the tokens minted so far, as their holders keep them
    revoked,    \* the revocation entries: jti and the time the entry lapses
    redis,      \* whether redis_client is set (the ping at import succeeded)
    rooms,      \* broker.rooms: per session the member set of room session:<id>
    socket,     \* the WebSocket connections and their ws_stream handlers
    inbox,      \* per connection, the messages its client has received
    emits       \* the calls of broker.emit: their iterator and locals

vars == <<sessions, questions, answers, events, strikes, summaries, now, req, emitted,
          tokens, revoked, redis, rooms, socket, inbox, emits>>
store == <<sessions, questions, answers, events, strikes, summaries>>
auth == <<tokens, revoked, redis>>
stream == <<rooms, socket, inbox, emits>>

(***************************************************************************)
(* Request slots                                                           *)
(***************************************************************************)
\* op: the handler; pc: the store operation it performs next; sid: the path's
\* session_id; resp: the response once pc = "done"; the rest are the handler's
\* locals that a later step reads (asked, the body's sessionId and questionId,
\* the _id of the answer inserted, the call of broker.emit awaited,
\* the events still to insert, auto_pause, auto_end_reason, the payload's
\* checks["network"]) and, of a response, overallStatus and canProceed of a
\* precheck and the tokens a token endpoint returns (minted); of code_eval,
\* the body's code and tests, the results and the count of passes so far,
\* the response's total, and what became of each test's worker process.
NoNetwork == [kind |-> "absent", status |-> ""]

Idle ==
    [op |-> "none", pc |-> "idle", sid |-> "", resp |-> "", asked |-> 0,
     bsid |-> "", qid |-> 0, aid |-> 0, emit |-> 0, batch |-> <<>>, autoPause |-> FALSE, autoEnd |-> "",
     network |-> NoNetwork, overallStatus |-> "", canProceed |-> FALSE,
     minted |-> {},
     code |-> {}, tests |-> <<>>, results |-> <<>>, passed |-> 0, total |-> 0,
     workers |-> <<>>]

Free(r) == req[r].pc \in {"idle", "done"}

\* a new request takes the first free slot (slots are interchangeable)
FirstFree(r) == Free(r) /\ \A q \in Slots : q < r => ~Free(q)

Done(op, sid, resp) == [Idle EXCEPT !.op = op, !.pc = "done", !.sid = sid, !.resp = resp]

At(op, sid, pc) == [Idle EXCEPT !.op = op, !.pc = pc, !.sid = sid]

(***************************************************************************)
(* Collections                                                             *)
(***************************************************************************)
QuestionIdsOf(sid) == {i \in 1..Len(questions) : questions[i].sessionId = sid}
SummariesOf(sid) == {i \in 1..Len(summaries) : summaries[i].sessionId = sid}
EventsOf(sid) == {i \in 1..Len(events) : events[i].sessionId = sid}
StrikesOf(sid) == {i \in 1..Len(strikes) : strikes[i].sessionId = sid}
AnswersOf(sid) == {i \in 1..Len(answers) : answers[i].sessionId = sid}

InFlight(op) == Cardinality({r \in Slots : req[r].op = op /\ req[r].pc # "done"})

\* the broker and the connections before any upgrade request (see the
\* section on the broker for the fields)
Conns == 1..NumConns
Emits == 1..NumEmits

NoRoom == [members |-> {}, gen |-> 0]

NewSocket ==
    [pc |-> "new", sid |-> "", tok |-> {}, at |-> NoTime, code |-> 0, alive |-> TRUE,
     pending |-> <<>>]

IdleEmit ==
    [pc |-> "idle", room |-> "", used |-> 0, gen |-> 0, pos |-> 0, cur |-> 0,
     dead |-> {}, snap |-> {}, tried |-> {}]

StreamInit ==
    /\ rooms = [sid \in SessionIds |-> NoRoom]
    /\ socket = [c \in Conns |-> NewSocket]
    /\ inbox = [c \in Conns |-> <<>>]
    /\ emits = [e \in Emits |-> IdleEmit]

Init ==
    /\ sessions = [s \in {} |-> 0]
    /\ questions = <<>>
    /\ answers = <<>>
    /\ events = <<>>
    /\ strikes = <<>>
    /\ summaries = <<>>
    /\ now = 0
    /\ req = [r \in Slots |-> Idle]
    /\ emitted = {}
    /\ tokens = {}
    /\ revoked = {}
    /\ redis = FALSE
    /\ StreamInit

(***************************************************************************)
(* Tokens: security/jwt.py and security/deps.py                            *)
(***************************************************************************)
\* A token is the payload jwt.encode signed, with the key that signed it: a
\* client can alter a payload but cannot sign with settings.auth_secret.  A
\* scope string f"{prefix}:{id}" is the pair <<prefix, id>>; jti (uuid4) is
\* the triple naming the mint.
Scope(prefix, sid) == <<prefix, sid>>
AiAsk == <<"ai:ask">>

\* mint_jwt(sub, role, scopes, aud, session_id, ttl_seconds) at time t
MintJwt(sub, scopes, aud, sid, ttl, t) ==
    [sub |-> sub, scope |-> scopes, aud |-> aud, sessionId |-> sid,
     iat |-> t, exp |-> t + ttl, jti |-> <<aud, sid, t>>, type |-> "access",
     key |-> "auth_secret"]

\* the IST of create_session; the WST, AIPT and UPT of start_interview
Ist(sub, sid, t) == MintJwt(sub, {Scope("interview:session", sid)}, "interview-api", sid, TtlIst, t)
Wst(sub, sid, t) == MintJwt(sub, {Scope("ws:interview", sid)}, "interview-ws", sid, TtlWst, t)
Aipt(sub, sid, t) == MintJwt(sub, {AiAsk}, "ai-proxy", sid, TtlAipt, t)
Upt(sid, t) == MintJwt("media", {Scope("upload:session", sid)}, "upload", sid, TtlUpt, t)

\* is_token_revoked: membership of the in-memory set, or existence of the
\* Redis key, which lapses when its TTL has run
IsTokenRevoked(jti, t) ==
    \E e \in revoked : e.jti = jti /\ (e.until = NoTime \/ t < e.until)

\* a revocation entry that lives for one quantum only
RevokedUntilShort(t) == IF redis THEN t + Quantum ELSE NoTime

\* the instant a revocation made at time t lapses: never in the in-memory
\* set, after the setex TTL in Redis
RevokedUntil(t) == IF redis THEN t + RevocationTtl ELSE NoTime

\* revoke_token(jti)
RevokeToken(jti) ==
    /\ Cardinality({e.jti : e \in revoked} \cup {jti}) <= MaxRevoked
    /\ revoked' = {e \in revoked : e.jti # jti} \cup {[jti |-> jti, until |-> RevokedUntil(now)]}
    /\ UNCHANGED <<store, now, req, emitted, tokens, redis, stream>>

\* decode_jwt without the expiry check of jwt.decode
DecodeJwtIgnoringExp(tok, audience, t) ==
    IF tok.key # "auth_secret" THEN "invalid_token"
    ELSE IF tok.aud # audience THEN "invalid_token"
    ELSE IF tok.type = "access" /\ IsTokenRevoked(tok.jti, t) THEN "token_revoked"
    ELSE "ok"

\* jwt.decode as decode_jwt calls it, then the revocation check; the result is
\* "ok" (the payload is returned) or the detail of the 401.  PyJWT verifies
\* the signature, then exp, then aud.
DecodeJwt(tok, audience, t) ==
    IF tok.key # "auth_secret" THEN "invalid_token"
    ELSE IF tok.exp <= t THEN "token_expired"
    ELSE IF tok.aud # audience THEN "invalid_token"
    ELSE IF tok.type = "access" /\ IsTokenRevoked(tok.jti, t) THEN "token_revoked"
    ELSE "ok"

\* the tokens of login: the user JWT, and the JWT set as the cookie "session";
\* neither carries a session id, and the uuid4 jti is named by the holder
UserJwt(sub, t) ==
    [MintJwt(sub, {<<"user">>}, "user-api", "", TtlUserJwt, t)
        EXCEPT !.jti = <<"user-api", sub, t>>]
SessionCookie(sub, t) ==
    [MintJwt(sub, {<<"session">>}, "session", "", TtlUserJwt, t)
        EXCEPT !.jti = <<"session", sub, t>>]

\* require_scope(claims, required)
RequireScope(tok, required) == required \in tok.scope

\* auth_ai_proxy: "ok" or the detail of the error raised
AuthAiProxy(tok, t) ==
    IF DecodeJwt(tok, "ai-proxy", t) # "ok" THEN DecodeJwt(tok, "ai-proxy", t)
    ELSE IF ~RequireScope(tok, AiAsk) THEN "insufficient_scope"
    ELSE "ok"

\* auth_ist
AuthIst(tok, t) ==
    IF DecodeJwt(tok, "interview-api", t) # "ok" THEN DecodeJwt(tok, "interview-api", t)
    ELSE IF ~RequireScope(tok, Scope("interview:session", tok.sessionId)) THEN "insufficient_scope"
    ELSE "ok"

\* auth_acet
AuthAcet(tok, t) ==
    IF DecodeJwt(tok, "anti-cheat", t) # "ok" THEN DecodeJwt(tok, "anti-cheat", t)
    ELSE IF ~RequireScope(tok, Scope("anti-cheat:emit", tok.sessionId)) THEN "insufficient_scope"
    ELSE "ok"

\* auth_session_cookie: decode_jwt alone, no scope and no subject is read
AuthSessionCookie(tok, t) == DecodeJwt(tok, "session", t)

\* the status code of an authentication or authorisation error
HttpStatus(detail) ==
    IF detail \in {"invalid_token", "token_expired", "token_revoked", "missing_bearer"} THEN 401
    ELSE IF detail = "insufficient_scope" THEN 403
    ELSE 200

(***************************************************************************)
(* create_session                                                          *)
(***************************************************************************)
\* a new session that already awaits an answer
NewSessionAwaiting(user, n) ==
    [state |-> "PendingPrecheck", userId |-> user, questionCount |-> n,
     askedCount |-> 0, awaitingAnswer |-> TRUE, lastAskedAt |-> NoTime,
     policyCounters |-> [t \in StrikeTypes |-> 0],
     pauseReason |-> "", endCode |-> "", sealedAt |-> NoTime]

NewSession(user, n) ==
    [state |-> "PendingPrecheck", userId |-> user, questionCount |-> n,
     askedCount |-> 0, awaitingAnswer |-> FALSE, lastAskedAt |-> NoTime,
     policyCounters |-> [t \in StrikeTypes |-> 0],
     pauseReason |-> "", endCode |-> "", sealedAt |-> NoTime]

ConsentGiven(consentRecording, consentAntiCheat) == consentRecording /\ consentAntiCheat

\* create_session for the user whose token auth_user admitted (sub)
CreateSessionOf(r, sid, sub, n, consentRecording, consentAntiCheat) ==
    /\ FirstFree(r)
    /\ sid \notin DOMAIN sessions
    /\ IF ~ConsentGiven(consentRecording, consentAntiCheat)
       THEN /\ req' = [req EXCEPT ![r] = Done("create_session", sid, "consent_required")]
            /\ UNCHANGED sessions
       ELSE /\ sessions' = [s \in DOMAIN sessions \cup {sid} |->
                               IF s = sid THEN NewSession(sub, n) ELSE sessions[s]]
            /\ req' = [req EXCEPT ![r] = Done("create_session", sid, "ok")]
    /\ tokens' = IF ConsentGiven(consentRecording, consentAntiCheat)
                 THEN tokens \cup {Ist(sub, sid, now)} ELSE tokens
    /\ UNCHANGED <<questions, answers, events, strikes, summaries, now, emitted, revoked, redis, stream>>

\* create_session for the one user of most specifications
CreateSession(r, sid, n, consentRecording, consentAntiCheat) ==
    CreateSessionOf(r, sid, "u1", n, consentRecording, consentAntiCheat)

SetState(sid, st) == [sessions EXCEPT ![sid].state = st]

\* broker.emit(f"session:{sid}", {"type": type, ...})
Emit(sid, type) == emitted \cup {[room |-> sid, type |-> type]}

(***************************************************************************)
(* submit_precheck and the event chain                                     *)
(***************************************************************************)
\* hashlib.sha256 over sessionId, seq, type, ts, details and the prior hash:
\* a digest is determined by exactly these six inputs.
Digest(ev, prior) == <<ev.sessionId, ev.seq, ev.type, ev.ts, ev.details, prior>>

\* {**ev, "_id": ..., "hash": ev_hash, "createdAt": ...}
Enriched(ev, h) ==
    [sessionId |-> ev.sessionId, seq |-> ev.seq, type |-> ev.type,
     details |-> ev.details, ts |-> ev.ts, prevHash |-> ev.prevHash, hash |-> h]

\* sorted(events, key=lambda x: x["seq"]): stable insertion by seq
RECURSIVE InsertBySeq(_, _)
InsertBySeq(ev, sorted) ==
    IF sorted = <<>> THEN <<ev>>
    ELSE IF Head(sorted).seq <= ev.seq
         THEN <<Head(sorted)>> \o InsertBySeq(ev, Tail(sorted))
         ELSE <<ev>> \o sorted

RECURSIVE SortBySeq(_)
SortBySeq(evs) ==
    IF evs = <<>> THEN <<>>
    ELSE InsertBySeq(evs[Len(evs)], SortBySeq(SubSeq(evs, 1, Len(evs) - 1)))

\* find({"sessionId": sid}).sort("seq", -1).limit(1): a stored event of the
\* session with the greatest seq (any of them when several share it)
TailCandidates(sid) ==
    IF EventsOf(sid) = {}
    THEN {[seq |-> 0, hash |-> EmptyHash]}
    ELSE {[seq |-> events[i].seq, hash |-> events[i].hash] :
            i \in {j \in EventsOf(sid) : \A k \in EventsOf(sid) : events[k].seq <= events[j].seq}}

\* if events_sorted[0]["seq"] <= last_seq: raise
SeqReplayed(sorted, lastSeq) == sorted[1].seq <= lastSeq

\* the loop over events_sorted: ok is FALSE when some prevHash differs from
\* the running prior hash, recs are the enriched records otherwise
RECURSIVE ChainWalk(_, _)
ChainWalk(sorted, prior) ==
    IF sorted = <<>> THEN [ok |-> TRUE, recs |-> <<>>]
    ELSE IF Head(sorted).prevHash # prior THEN [ok |-> FALSE, recs |-> <<>>]
    ELSE LET h == Digest(Head(sorted), prior)
             rest == ChainWalk(Tail(sorted), h)
         IN [ok |-> rest.ok, recs |-> <<Enriched(Head(sorted), h)>> \o rest.recs]

\* Validate without the prevHash comparison: the records up to the first
\* mismatch are accepted
ValidateKeepingPrefix(batch, tail) ==
    LET sorted == SortBySeq(batch)
        walk == ChainWalk(sorted, tail.hash)
    IN IF SeqReplayed(sorted, tail.seq)
       THEN [status |-> "event_seq_replay_or_out_of_order", recs |-> <<>>]
       ELSE [status |-> "ok", recs |-> walk.recs]

\* the outcome of validating a non-empty batch against the loaded tail
Validate(batch, tail) ==
    LET sorted == SortBySeq(batch)
        walk == ChainWalk(sorted, tail.hash)
    IN IF SeqReplayed(sorted, tail.seq)
       THEN [status |-> "event_seq_replay_or_out_of_order", recs |-> <<>>]
       ELSE IF ~walk.ok THEN [status |-> "event_chain_broken", recs |-> <<>>]
       ELSE [status |-> "ok", recs |-> walk.recs]

\* events that requests in flight have yet to insert
RECURSIVE PendingEvents(_)
PendingEvents(S) ==
    IF S = {} THEN 0
    ELSE LET r == CHOOSE x \in S : TRUE
         IN (IF req[r].pc \in {"pc_tail", "pc_insert", "ac_insert"}
             THEN Len(req[r].batch) ELSE 0) + PendingEvents(S \ {r})

EventRoom(batch) == Len(events) + PendingEvents(Slots) + Len(batch) <= MaxEvents

PrecheckAllowed(st) == st \in {"PendingPrecheck", "Paused"}

\* what payload.checks holds under "network": nothing, a value that is not a
\* dict, or a dict with or without a status
NetworkChecks ==
    {NoNetwork, [kind |-> "text", status |-> "warning"]}
    \cup {[kind |-> "dict", status |-> st] : st \in {"", "pass", "warning", "fail"}}

\* an overall status that reports a failed network check
OverallWithFail(network) ==
    IF network.kind = "dict" /\ network.status \in {"warning", "fail"}
    THEN network.status ELSE "pass"

\* overall: "warning" if net is a dict whose status is "warning", else "pass"
Overall(network) ==
    IF network.kind = "dict" /\ network.status = "warning" THEN "warning" ELSE "pass"

\* submit_precheck with payload events `batch` and checks["network"] `network`
PrecheckReadWith(r, sid, batch, network) ==
    /\ FirstFree(r)
    /\ EventRoom(batch)
    /\ req' = [req EXCEPT ![r] =
                 IF sid \notin DOMAIN sessions
                 THEN Done("submit_precheck", sid, "session_not_found")
                 ELSE IF ~PrecheckAllowed(sessions[sid].state)
                 THEN Done("submit_precheck", sid, "invalid_state")
                 ELSE IF batch # <<>>
                 THEN [At("submit_precheck", sid, "pc_tail") EXCEPT
                         !.batch = batch, !.network = network]
                 ELSE [At("submit_precheck", sid, "pc_write") EXCEPT !.network = network]]
    /\ UNCHANGED <<store, now, emitted, auth, stream>>

\* submit_precheck with no network entry in its checks
PrecheckRead(r, sid, batch) == PrecheckReadWith(r, sid, batch, NoNetwork)

PrecheckTail(r) ==
    /\ req[r].op = "submit_precheck" /\ req[r].pc = "pc_tail"
    /\ \E tail \in TailCandidates(req[r].sid) :
         LET v == Validate(req[r].batch, tail)
         IN req' = [req EXCEPT ![r] =
                      IF v.status # "ok"
                      THEN Done("submit_precheck", req[r].sid, v.status)
                      ELSE [@ EXCEPT !.pc = "pc_insert", !.batch = v.recs]]
    /\ UNCHANGED <<store, now, emitted, auth, stream>>

PrecheckInsert(r) ==
    /\ req[r].op = "submit_precheck" /\ req[r].pc = "pc_insert"
    /\ events' = events \o req[r].batch
    /\ req' = [req EXCEPT ![r] = [At("submit_precheck", req[r].sid, "pc_write") EXCEPT
                                     !.network = req[r].network]]
    /\ UNCHANGED <<sessions, questions, answers, strikes, summaries, now, emitted, auth, stream>>

PrecheckWrite(r) ==
    /\ req[r].op = "submit_precheck" /\ req[r].pc = "pc_write"
    /\ sessions' = SetState(req[r].sid, "Ready")
    /\ req' = [req EXCEPT ![r] = [Done("submit_precheck", req[r].sid, "ok") EXCEPT
                                     !.overallStatus = Overall(req[r].network),
                                     !.canProceed = TRUE]]
    /\ UNCHANGED <<questions, answers, events, strikes, summaries, now, emitted, auth, stream>>

(***************************************************************************)
(* start_interview                                                         *)
(***************************************************************************)
StartAllowed(st) == st = "Ready"

StartRead(r, sid) ==
    /\ FirstFree(r)
    /\ req' = [req EXCEPT ![r] =
                 IF sid \notin DOMAIN sessions
                 THEN Done("start_interview", sid, "session_not_found")
                 ELSE IF ~StartAllowed(sessions[sid].state)
                 THEN Done("start_interview", sid, "invalid_state")
                 ELSE At("start_interview", sid, "st_write")]
    /\ UNCHANGED <<store, now, emitted, auth, stream>>

StartWrite(r) ==
    /\ req[r].op = "start_interview" /\ req[r].pc = "st_write"
    /\ sessions' = SetState(req[r].sid, "Active")
    /\ req' = [req EXCEPT ![r] = Done("start_interview", req[r].sid, "ok")]
    /\ tokens' = tokens \cup {Wst(sessions[req[r].sid].userId, req[r].sid, now),
                              Aipt(sessions[req[r].sid].userId, req[r].sid, now),
                              Upt(req[r].sid, now)}
    /\ UNCHANGED <<questions, answers, events, strikes, summaries, now, emitted, revoked, redis, stream>>

\* the handlers that bind the name db (db = get_database()); the module has
\* no db of its own, it imports get_database only
BindsDb == {"create_session", "submit_precheck"}

\* start_interview with its names resolved as the module resolves them: the
\* test `db is None` reads a name that nothing binds and raises NameError
\* before the session is looked up, which the framework answers with 500
StartAsWritten(r, sid) ==
    /\ FirstFree(r)
    /\ "start_interview" \notin BindsDb
    /\ req' = [req EXCEPT ![r] = Done("start_interview", sid, "internal_server_error")]
    /\ UNCHANGED <<store, now, emitted, auth, stream>>

(***************************************************************************)
(* next_question                                                           *)
(***************************************************************************)
\* (datetime.utcnow() - last_dt).total_seconds() < 5, when lastAskedAt is set
RateCheckRaises(sess, t) ==
    sess.lastAskedAt # NoTime /\ t - sess.lastAskedAt < RateWindow

\* the raise of line 189 sits inside `try: ... except Exception: pass`, and
\* HTTPException is an Exception
RaiseSwallowed == TRUE

RateLimited(sess, t) == RateCheckRaises(sess, t) /\ ~RaiseSwallowed

\* questions run out only once more were asked than the session has
NoQuestionsRemainingLate(sess) == sess.askedCount > sess.questionCount

NoQuestionsRemaining(sess) == sess.askedCount >= sess.questionCount

\* the status_code of each HTTPException of next_question
NextQuestionStatus(detail) ==
    CASE detail = "session_not_found" -> 404
      [] detail \in {"invalid_state", "answer_required"} -> 409
      [] detail = "rate_limited" -> 429
      [] detail = "no_questions_remaining" -> 400
      [] OTHER -> 200

\* the checks of next_question in the order the handler makes them
NextQuestionCheck(sess, t) ==
    IF sess.state # "Active" THEN "invalid_state"
    ELSE IF sess.awaitingAnswer THEN "answer_required"
    ELSE IF RateLimited(sess, t) THEN "rate_limited"
    ELSE IF NoQuestionsRemaining(sess) THEN "no_questions_remaining"
    ELSE "ok"

NextQuestionRead(r, sid) ==
    /\ FirstFree(r)
    /\ Len(questions) + InFlight("next_question") < MaxQuestions
    /\ req' = [req EXCEPT ![r] =
                 IF sid \notin DOMAIN sessions
                 THEN Done("next_question", sid, "session_not_found")
                 ELSE IF NextQuestionCheck(sessions[sid], now) # "ok"
                 THEN Done("next_question", sid, NextQuestionCheck(sessions[sid], now))
                 ELSE [At("next_question", sid, "nq_insert") EXCEPT
                         !.asked = sessions[sid].askedCount]]
    /\ UNCHANGED <<store, now, emitted, auth, stream>>

\* next_question as FastAPI runs it: Depends(auth_ai_proxy) on the bearer
\* token first, the handler only when the dependency returned claims; the
\* handler uses session_id of the path and never reads the claims
NextQuestionAs(r, sid, tok) ==
    IF AuthAiProxy(tok, now) = "ok"
    THEN NextQuestionRead(r, sid)
    ELSE /\ FirstFree(r)
         /\ req' = [req EXCEPT ![r] = Done("next_question", sid, AuthAiProxy(tok, now))]
         /\ UNCHANGED <<store, now, emitted, auth, stream>>

NextQuestionInsert(r) ==
    /\ req[r].op = "next_question" /\ req[r].pc = "nq_insert"
    /\ questions' = Append(questions, [sessionId |-> req[r].sid, number |-> req[r].asked + 1])
    /\ req' = [req EXCEPT ![r].pc = "nq_update", ![r].qid = Len(questions) + 1]
    /\ UNCHANGED <<sessions, answers, events, strikes, summaries, now, emitted, auth, stream>>

NextQuestionUpdate(r) ==
    /\ req[r].op = "next_question" /\ req[r].pc = "nq_update"
    /\ sessions' = [sessions EXCEPT ![req[r].sid].awaitingAnswer = TRUE,
                                    ![req[r].sid].lastAskedAt = now,
                                    ![req[r].sid].askedCount = @ + 1]
    /\ req' = [req EXCEPT ![r] = Done("next_question", req[r].sid, "ok")]
    /\ emitted' = Emit(req[r].sid, "QUESTION_CREATED")
    /\ UNCHANGED <<questions, answers, events, strikes, summaries, now, auth, stream>>

(***************************************************************************)
(* submit_answer                                                           *)
(***************************************************************************)
\* a state check that lets every session that is not sealed through
SubmitAnswerAllowedUnsealed(st) == st \notin Terminal

SubmitAnswerAllowed(st) == st = "Active"

\* db["questions"].find_one({"_id": req.questionId, "sessionId": session_id})
QuestionFound(qid, sid) == qid \in 1..Len(questions) /\ questions[qid].sessionId = sid

SubmitAnswerRead(r, sid, bodySid, qid) ==
    /\ FirstFree(r)
    /\ Len(answers) + InFlight("submit_answer") < MaxAnswers
    /\ req' = [req EXCEPT ![r] =
                 IF sid \notin DOMAIN sessions
                 THEN Done("submit_answer", sid, "session_not_found")
                 ELSE IF ~SubmitAnswerAllowed(sessions[sid].state)
                 THEN Done("submit_answer", sid, "invalid_state")
                 ELSE [At("submit_answer", sid, "sa_insert") EXCEPT
                         !.bsid = bodySid, !.qid = qid]]
    /\ UNCHANGED <<store, now, emitted, auth, stream>>

SubmitAnswerInsert(r) ==
    /\ req[r].op = "submit_answer" /\ req[r].pc = "sa_insert"
    /\ answers' = Append(answers, [sessionId |-> req[r].bsid, questionId |-> req[r].qid,
                                   immediateFeedback |-> FALSE])
    /\ req' = [req EXCEPT ![r].pc = "sa_update", ![r].aid = Len(answers) + 1]
    /\ UNCHANGED <<sessions, questions, events, strikes, summaries, now, emitted, auth, stream>>

\* the session update and the analysis block that follows it; analysed: whether
\* analyze_qa and the write of its feedback went through (an exception in the
\* block is swallowed, and nothing is broadcast); the feedback is written on
\* the answer this request inserted
SubmitAnswerFinish(r, analysed) ==
    /\ req[r].op = "submit_answer" /\ req[r].pc = "sa_update"
    /\ sessions' = [sessions EXCEPT ![req[r].sid].awaitingAnswer = FALSE]
    /\ req' = [req EXCEPT ![r] = Done("submit_answer", req[r].sid, "ok")]
    /\ answers' = IF QuestionFound(req[r].qid, req[r].sid) /\ analysed
                  THEN [answers EXCEPT ![req[r].aid].immediateFeedback = TRUE]
                  ELSE answers
    /\ emitted' = IF QuestionFound(req[r].qid, req[r].sid) /\ analysed
                  THEN Emit(req[r].sid, "FEEDBACK_CREATED") ELSE emitted
    /\ UNCHANGED <<questions, events, strikes, summaries, now, auth, stream>>

\* the step when the analysis goes through
SubmitAnswerUpdate(r) == SubmitAnswerFinish(r, TRUE)

(***************************************************************************)
(* finalize                                                                *)
(***************************************************************************)
\* finalize reads the session and tests only that it exists
FinalizeCheck(sess) == "ok"

SummaryRoom ==
    Len(summaries) + InFlight("finalize") + InFlight("anti_cheat_emit") < MaxSummaries

FinalizeRead(r, sid) ==
    /\ FirstFree(r)
    /\ SummaryRoom
    /\ req' = [req EXCEPT ![r] =
                 IF sid \notin DOMAIN sessions
                 THEN Done("finalize", sid, "session_not_found")
                 ELSE IF FinalizeCheck(sessions[sid]) # "ok"
                 THEN Done("finalize", sid, FinalizeCheck(sessions[sid]))
                 ELSE At("finalize", sid, "fin_insert")]
    /\ UNCHANGED <<store, now, emitted, auth, stream>>

FinalizeInsert(r) ==
    /\ req[r].op = "finalize" /\ req[r].pc = "fin_insert"
    /\ summaries' = Append(summaries, [sessionId |-> req[r].sid])
    /\ req' = [req EXCEPT ![r].pc = "fin_update"]
    /\ UNCHANGED <<sessions, questions, answers, events, strikes, now, emitted, auth, stream>>

FinalizeUpdate(r) ==
    /\ req[r].op = "finalize" /\ req[r].pc = "fin_update"
    /\ sessions' = [sessions EXCEPT ![req[r].sid].state = "Completed",
                                    ![req[r].sid].sealedAt = now]
    /\ req' = [req EXCEPT ![r] = Done("finalize", req[r].sid, "ok")]
    /\ UNCHANGED <<questions, answers, events, strikes, summaries, now, emitted, auth, stream>>

(***************************************************************************)
(* anti_cheat_emit and the strike policy                                   *)
(***************************************************************************)
\* _eval_strike: the severity of the strike an event earns, "none" for no
\* strike; details carries the event's details.duration (0 when it has none)
EvalStrike(ev) ==
    IF ev.type = "SCREENSHOT_ATTEMPT" THEN "red"
    ELSE IF ev.type = "FS_EXIT" THEN "yellow"
    ELSE IF ev.type = "TAB_SWITCH" THEN "yellow"
    ELSE IF ev.type = "FACE_MISSING"
         THEN (IF ev.details <= FaceMissingYellowMax THEN "yellow" ELSE "red")
    ELSE "none"

\* strikes_to_insert, in the order of events_sorted
RECURSIVE StrikesFor(_, _)
StrikesFor(sid, recs) ==
    IF recs = <<>> THEN <<>>
    ELSE (IF EvalStrike(Head(recs)) = "none" THEN <<>>
          ELSE <<[sessionId |-> sid, type |-> Head(recs).type,
                  severity |-> EvalStrike(Head(recs))]>>)
         \o StrikesFor(sid, Tail(recs))

CountType(ss, t) == Cardinality({i \in 1..Len(ss) : ss[i].type = t})

\* ScreenshotEnd without the immediate end for screenshot attempts
ScreenshotEndNever(ss) == ""

\* auto_end_reason after the loop over strikes_to_insert
ScreenshotEnd(ss) ==
    IF \E i \in 1..Len(ss) : ss[i].type = "SCREENSHOT_ATTEMPT" /\ ss[i].severity = "red"
    THEN "screenshot_attempt" ELSE ""

\* the threshold checks on the session re-read after the counters' $inc
AutoPause(sess) == sess.policyCounters["FS_EXIT"] >= FsExitPauseAt /\ sess.state = "Active"

AutoEnd(sess, reason) ==
    IF reason # "" THEN reason
    ELSE IF sess.policyCounters["FS_EXIT"] >= FsExitEndAt THEN "fs_exit_excess"
    ELSE ""

AntiCheatLoad(r, sid, batch) ==
    /\ FirstFree(r)
    /\ EventRoom(batch)
    /\ SummaryRoom
    /\ \E tail \in TailCandidates(sid) :
         LET v == Validate(batch, tail)
         IN req' = [req EXCEPT ![r] =
                      IF sid \notin DOMAIN sessions
                      THEN Done("anti_cheat_emit", sid, "session_not_found")
                      ELSE IF batch = <<>>
                      THEN Done("anti_cheat_emit", sid, "ok")
                      ELSE IF v.status # "ok"
                      THEN Done("anti_cheat_emit", sid, v.status)
                      ELSE [At("anti_cheat_emit", sid, "ac_insert") EXCEPT !.batch = v.recs]]
    /\ UNCHANGED <<store, now, emitted, auth, stream>>

AntiCheatInsert(r) ==
    /\ req[r].op = "anti_cheat_emit" /\ req[r].pc = "ac_insert"
    /\ events' = events \o req[r].batch
    /\ req' = [req EXCEPT ![r] =
                 IF StrikesFor(req[r].sid, req[r].batch) = <<>>
                 THEN Done("anti_cheat_emit", req[r].sid, "ok")
                 ELSE [@ EXCEPT !.pc = "ac_strikes"]]
    /\ UNCHANGED <<sessions, questions, answers, strikes, summaries, now, emitted, auth, stream>>

AntiCheatStrikes(r) ==
    /\ req[r].op = "anti_cheat_emit" /\ req[r].pc = "ac_strikes"
    /\ strikes' = strikes \o StrikesFor(req[r].sid, req[r].batch)
    /\ req' = [req EXCEPT ![r].pc = "ac_inc",
                          ![r].autoEnd = ScreenshotEnd(StrikesFor(req[r].sid, req[r].batch))]
    /\ emitted' = Emit(req[r].sid, "STRIKE_CREATED")
    /\ UNCHANGED <<sessions, questions, answers, events, summaries, now, auth, stream>>

AntiCheatInc(r) ==
    /\ req[r].op = "anti_cheat_emit" /\ req[r].pc = "ac_inc"
    /\ sessions' = [sessions EXCEPT ![req[r].sid].policyCounters =
                      [t \in StrikeTypes |->
                         @[t] + CountType(StrikesFor(req[r].sid, req[r].batch), t)]]
    /\ req' = [req EXCEPT ![r].pc = "ac_policy", ![r].batch = <<>>]
    /\ UNCHANGED <<questions, answers, events, strikes, summaries, now, emitted, auth, stream>>

\* find_one({"_id": sid}, {"projection": {"policyCounters": 1, "state": 1}}):
\* the document with the two fields the call means to select, or, the second
\* argument being itself the projection document (it selects the paths
\* projection.policyCounters and projection.state, which no session has), the
\* document without them: (pc.get("FS_EXIT", 0) or 0) is then 0 and
\* sess.get("state") is None
PolicyRead(sid) ==
    {sessions[sid],
     [sessions[sid] EXCEPT !.policyCounters = [t \in StrikeTypes |-> 0], !.state = ""]}

AntiCheatPolicy(r) ==
    /\ req[r].op = "anti_cheat_emit" /\ req[r].pc = "ac_policy"
    /\ \E sess \in PolicyRead(req[r].sid) :
         LET pause == AutoPause(sess)
             reason == AutoEnd(sess, req[r].autoEnd)
         IN req' = [req EXCEPT ![r] =
                      IF pause THEN [@ EXCEPT !.pc = "ac_pause", !.autoPause = TRUE, !.autoEnd = reason]
                      ELSE IF reason # "" THEN [@ EXCEPT !.pc = "ac_summary", !.autoEnd = reason]
                      ELSE Done("anti_cheat_emit", req[r].sid, "ok")]
    /\ UNCHANGED <<store, now, emitted, auth, stream>>

AntiCheatPause(r) ==
    /\ req[r].op = "anti_cheat_emit" /\ req[r].pc = "ac_pause"
    /\ sessions' = [sessions EXCEPT ![req[r].sid].state = "Paused",
                                    ![req[r].sid].pauseReason = "fs_exit"]
    /\ req' = [req EXCEPT ![r] =
                 IF req[r].autoEnd # "" THEN [@ EXCEPT !.pc = "ac_summary"]
                 ELSE Done("anti_cheat_emit", req[r].sid, "ok")]
    /\ emitted' = Emit(req[r].sid, "SESSION_PAUSED")
    /\ UNCHANGED <<questions, answers, events, strikes, summaries, now, auth, stream>>

\* a summary step that already announces the end of the session
AntiCheatSummaryAnnouncing(r) ==
    /\ req[r].op = "anti_cheat_emit" /\ req[r].pc = "ac_summary"
    /\ summaries' = Append(summaries, [sessionId |-> req[r].sid])
    /\ req' = [req EXCEPT ![r].pc = "ac_seal"]
    /\ emitted' = Emit(req[r].sid, "SESSION_ENDED")
    /\ UNCHANGED <<sessions, questions, answers, events, strikes, now, auth, stream>>

AntiCheatSummary(r) ==
    /\ req[r].op = "anti_cheat_emit" /\ req[r].pc = "ac_summary"
    /\ summaries' = Append(summaries, [sessionId |-> req[r].sid])
    /\ req' = [req EXCEPT ![r].pc = "ac_seal"]
    /\ UNCHANGED <<sessions, questions, answers, events, strikes, now, emitted, auth, stream>>

AntiCheatSeal(r) ==
    /\ req[r].op = "anti_cheat_emit" /\ req[r].pc = "ac_seal"
    /\ sessions' = [sessions EXCEPT ![req[r].sid].state = "Ended",
                                    ![req[r].sid].sealedAt = now,
                                    ![req[r].sid].endCode = req[r].autoEnd]
    /\ req' = [req EXCEPT ![r] = Done("anti_cheat_emit", req[r].sid, "ok")]
    /\ emitted' = Emit(req[r].sid, "SESSION_ENDED")
    /\ UNCHANGED <<questions, answers, events, strikes, summaries, now, auth, stream>>

(***************************************************************************)
(* code_eval and _code_worker                                              *)
(***************************************************************************)
\* The body's code is the set of fragments it contains; lowered is the code
\* in lower case.
CodeFragments == {"def ", "import ", "IMPORT ", "Eval("}
Lower(frag) ==
    IF frag = "IMPORT " THEN "import " ELSE IF frag = "Eval(" THEN "eval(" ELSE frag
Banned ==
    {"import ", "__import__", "open(", "exec(", "eval(", "os.", "sys.",
     "subprocess", "socket", "thread", "fork", "spawn"}

\* a pre-screen that reads the code as it was sent
PreScreenCaseSensitive(code) == \A frag \in code : frag \notin Banned

\* no banned token occurs in lowered
PreScreen(code) == \A frag \in code : Lower(frag) \notin Banned

\* What a worker does with a test: the function runs past the limit (hang),
\* the worker cannot finish writing a large result before the limit
\* (blocked_put), the function is missing, raises with a message or with an
\* empty one, returns what was expected or something else, or returns a
\* value the queue cannot pickle (lost).
WorkerRuns ==
    {"hang", "blocked_put", "not_found", "raise", "raise_empty", "equal",
     "differ", "lost"}

\* p.is_alive() after p.join(1.0)
AliveAfterJoin(run) == run \in {"hang", "blocked_put"}

\* q.get_nowait(), with {"error": "no_result"} when the queue is empty
QueueGet(run) ==
    CASE run = "not_found" -> [error |-> "function_not_found", pass |-> "absent"]
      [] run = "raise" -> [error |-> "message", pass |-> "absent"]
      [] run = "raise_empty" -> [error |-> "", pass |-> "absent"]
      [] run = "equal" -> [error |-> "absent", pass |-> "true"]
      [] run = "differ" -> [error |-> "absent", pass |-> "false"]
      [] OTHER -> [error |-> "no_result", pass |-> "absent"]

\* res.get("error") is truthy
HasError(res) == res.error \notin {"absent", ""}

\* a result that takes a worker past the limit for a pass
TestResultLenient(test, run) ==
    IF AliveAfterJoin(run)
    THEN [test |-> test, pass |-> TRUE, error |-> "timeout"]
    ELSE IF HasError(QueueGet(run))
    THEN [test |-> test, pass |-> FALSE, error |-> QueueGet(run).error]
    ELSE [test |-> test, pass |-> QueueGet(run).pass = "true", error |-> "absent"]

\* the entry appended to results for a test
TestResult(test, run) ==
    IF AliveAfterJoin(run)
    THEN [test |-> test, pass |-> FALSE, error |-> "timeout"]
    ELSE IF HasError(QueueGet(run))
    THEN [test |-> test, pass |-> FALSE, error |-> QueueGet(run).error]
    ELSE [test |-> test, pass |-> QueueGet(run).pass = "true", error |-> "absent"]

\* the worker once its test is recorded: terminated by p.terminate(), or
\* exited by itself
WorkerFate(run) == IF AliveAfterJoin(run) THEN "terminated" ELSE "exited"

CodeEvalReturn(r) ==
    [r EXCEPT !.pc = "done", !.resp = "ok", !.total = Len(r.tests)]

\* code_eval up to the loop over the tests; the session is never read
CodeEvalScreen(r, sid, code, tests) ==
    /\ FirstFree(r)
    /\ req' = [req EXCEPT ![r] =
                 IF ~PreScreen(code)
                 THEN [Done("code_eval", sid, "disallowed_code") EXCEPT !.code = code]
                 ELSE LET started == [At("code_eval", sid, "ce_test") EXCEPT
                                          !.code = code, !.tests = tests]
                      IN IF tests = <<>> THEN CodeEvalReturn(started) ELSE started]
    /\ UNCHANGED <<store, now, emitted, auth, stream>>

\* one turn of the loop: the worker of the next test is started and joined
\* for 1.0 s, and its test recorded; after the last test the response
CodeEvalTest(r, run) ==
    /\ req[r].op = "code_eval" /\ req[r].pc = "ce_test"
    /\ LET test == req[r].tests[Len(req[r].results) + 1]
           res == TestResult(test, run)
           after == [req[r] EXCEPT !.results = Append(@, res),
                                   !.passed = IF res.pass THEN @ + 1 ELSE @,
                                   !.workers = Append(@, WorkerFate(run))]
       IN req' = [req EXCEPT ![r] =
                    IF Len(after.results) = Len(after.tests)
                    THEN CodeEvalReturn(after) ELSE after]
    /\ UNCHANGED <<store, now, emitted, auth, stream>>

(***************************************************************************)
(* The token endpoints: refresh_tokens, issue_acet, issue_aipt             *)
(***************************************************************************)
\* the ACET of issue_acet, minted with ttl_seconds=settings.ttl_ist
Acet(sub, sid, t) == MintJwt(sub, {Scope("anti-cheat:emit", sid)}, "anti-cheat", sid, TtlIst, t)

\* a response carrying tokens
Returned(op, sid, toks) == [Done(op, sid, "ok") EXCEPT !.minted = toks]

\* refresh_tokens: an IST for any session found, a WST when it is Active
RefreshTokens(r, sid) ==
    /\ FirstFree(r)
    /\ LET sess == sessions[sid]
           ist == Ist(sess.userId, sid, now)
           wst == IF sess.state = "Active" THEN {Wst(sess.userId, sid, now)} ELSE {}
       IN IF sid \notin DOMAIN sessions
          THEN /\ req' = [req EXCEPT ![r] = Done("refresh_tokens", sid, "session_not_found")]
               /\ UNCHANGED tokens
          ELSE /\ req' = [req EXCEPT ![r] = Returned("refresh_tokens", sid, {ist} \cup wst)]
               /\ tokens' = tokens \cup {ist} \cup wst
    /\ UNCHANGED <<store, now, emitted, revoked, redis, stream>>

\* issue_acet: the session is looked up and its state is not read
IssueAcet(r, sid) ==
    /\ FirstFree(r)
    /\ LET acet == Acet(sessions[sid].userId, sid, now)
       IN IF sid \notin DOMAIN sessions
          THEN /\ req' = [req EXCEPT ![r] = Done("issue_acet", sid, "session_not_found")]
               /\ UNCHANGED tokens
          ELSE /\ req' = [req EXCEPT ![r] = Returned("issue_acet", sid, {acet})]
               /\ tokens' = tokens \cup {acet}
    /\ UNCHANGED <<store, now, emitted, revoked, redis, stream>>

\* an AIPT for a session that is not yet started, too
IssueAiptAllowedReady(st) == st \in {"Ready", "Active"}

\* sess["state"] != "Active" raises 409 invalid_state
IssueAiptAllowed(st) == st = "Active"

\* issue_aipt
IssueAipt(r, sid) ==
    /\ FirstFree(r)
    /\ LET aipt == Aipt(sessions[sid].userId, sid, now)
       IN IF sid \notin DOMAIN sessions
          THEN /\ req' = [req EXCEPT ![r] = Done("issue_aipt", sid, "session_not_found")]
               /\ UNCHANGED tokens
          ELSE IF ~IssueAiptAllowed(sessions[sid].state)
          THEN /\ req' = [req EXCEPT ![r] = Done("issue_aipt", sid, "invalid_state")]
               /\ UNCHANGED tokens
          ELSE /\ req' = [req EXCEPT ![r] = Returned("issue_aipt", sid, {aipt})]
               /\ tokens' = tokens \cup {aipt}
    /\ UNCHANGED <<store, now, emitted, revoked, redis, stream>>

(***************************************************************************)
(* The handlers behind their dependencies                                  *)
(***************************************************************************)
\* FastAPI resolves Depends(...) on the bearer token first and runs the
\* handler only when the dependency returned claims.  The handlers below
\* bind the claims to `_` and use the session_id of the path.
Refuse(r, op, sid, detail) ==
    /\ FirstFree(r)
    /\ req' = [req EXCEPT ![r] = Done(op, sid, detail)]
    /\ UNCHANGED <<store, now, emitted, auth, stream>>

\* submit_precheck behind auth_acet
PrecheckAs(r, sid, tok, batch) ==
    IF AuthAcet(tok, now) = "ok"
    THEN PrecheckRead(r, sid, batch)
    ELSE Refuse(r, "submit_precheck", sid, AuthAcet(tok, now))

\* submit_answer behind auth_ist
SubmitAnswerAs(r, sid, tok, bodySid, qid) ==
    IF AuthIst(tok, now) = "ok"
    THEN SubmitAnswerRead(r, sid, bodySid, qid)
    ELSE Refuse(r, "submit_answer", sid, AuthIst(tok, now))

\* finalize behind auth_ist
FinalizeAs(r, sid, tok) ==
    IF AuthIst(tok, now) = "ok"
    THEN FinalizeRead(r, sid)
    ELSE Refuse(r, "finalize", sid, AuthIst(tok, now))

\* login: the email given is the subject, no credential is validated; the
\* user JWT is returned and the session token is set as the cookie.  The
\* users collection and the refresh-token family are not read by any handler
\* of the interview router.
Login(sub) ==
    /\ SessionCookie(sub, now) \notin tokens
    /\ tokens' = tokens \cup {UserJwt(sub, now), SessionCookie(sub, now)}
    /\ UNCHANGED <<store, now, req, emitted, revoked, redis, stream>>

\* start_interview behind auth_session_cookie
StartAs(r, sid, cookie) ==
    IF AuthSessionCookie(cookie, now) = "ok"
    THEN StartRead(r, sid)
    ELSE Refuse(r, "start_interview", sid, AuthSessionCookie(cookie, now))

\* refresh_tokens behind auth_session_cookie; sess_claims is never read
RefreshTokensAs(r, sid, cookie) ==
    IF AuthSessionCookie(cookie, now) = "ok"
    THEN RefreshTokens(r, sid)
    ELSE Refuse(r, "refresh_tokens", sid, AuthSessionCookie(cookie, now))

\* issue_acet behind auth_session_cookie
IssueAcetAs(r, sid, cookie) ==
    IF AuthSessionCookie(cookie, now) = "ok"
    THEN IssueAcet(r, sid)
    ELSE Refuse(r, "issue_acet", sid, AuthSessionCookie(cookie, now))

\* issue_aipt behind auth_session_cookie
IssueAiptAs(r, sid, cookie) ==
    IF AuthSessionCookie(cookie, now) = "ok"
    THEN IssueAipt(r, sid)
    ELSE Refuse(r, "issue_aipt", sid, AuthSessionCookie(cookie, now))

(***************************************************************************)
(* The broker and the WebSocket stream: utils/broadcast.py, routes/ws.py   *)
(***************************************************************************)
\* A room is the set object broker.rooms holds for it: `members`, and `gen`,
\* which names the object (leave deletes an emptied room, the next join makes
\* a new set).  A member's place in the set's table is fixed while it is a
\* member; connections are numbered in the order of their places.
\*
\* A connection: pc is the position of its ws_stream handler ("new": no
\* upgrade request yet), sid the path's session_id, tok the token of the query
\* string (a set: empty when none was supplied), code the close code, alive
\* whether the client is still there, pending the sends awaiting completion on
\* its transport, in the order they were begun; at (the time of the upgrade
\* request) is history.
\*
\* A call of broker.emit: pc "idle" (not called), "sending" (suspended in
\* ws.send_json(message) to cur), "returned", "raised"; used and gen are the
\* set iterator's size and set at its creation, pos the place it has reached;
\* dead is the local of that name.  snap (the members when the call began)
\* and tried (the connections send_json was called on) are history.
Least(S) == CHOOSE x \in S : \A y \in S : x <= y

\* broker.join(room, ws) and broker.leave(room, ws) on the rooms rms
Join(rms, sid, c) ==
    [rms EXCEPT ![sid] = [members |-> rms[sid].members \cup {c},
                          gen |-> IF rms[sid].members = {} THEN rms[sid].gen + 1
                                  ELSE rms[sid].gen]]

Leave(rms, sid, c) == [rms EXCEPT ![sid].members = rms[sid].members \ {c}]

RECURSIVE LeaveAll(_, _, _)
LeaveAll(rms, sid, cs) ==
    IF cs = {} THEN rms
    ELSE LeaveAll(Leave(rms, sid, Least(cs)), sid, cs \ {Least(cs)})

\* ws_stream without the scope check
WsAuthAnyScope(tok, sid, t) == DecodeJwt(tok, "interview-ws", t)

\* ws_stream's checks on the token of the query string: "ok" or the detail of
\* the HTTPException that decode_jwt or require_scope raises
WsAuth(tok, sid, t) ==
    IF DecodeJwt(tok, "interview-ws", t) # "ok" THEN DecodeJwt(tok, "interview-ws", t)
    ELSE IF ~RequireScope(tok, Scope("ws:interview", sid)) THEN "insufficient_scope"
    ELSE "ok"

\* ws_stream up to its first await that lets others run: close(4401),
\* close(4403) or accept()
WsStream(c, sid, toks) ==
    /\ socket[c].pc = "new"
    /\ \A q \in Conns : q < c => socket[q].pc # "new"
    /\ socket' = [socket EXCEPT ![c] =
         IF toks = {}
         THEN [@ EXCEPT !.pc = "closed", !.sid = sid, !.at = now, !.code = 4401]
         ELSE IF \E tok \in toks : WsAuth(tok, sid, now) # "ok"
         THEN [@ EXCEPT !.pc = "closed", !.sid = sid, !.tok = toks, !.at = now,
                        !.code = 4403]
         ELSE [@ EXCEPT !.pc = "accepting", !.sid = sid, !.tok = toks, !.at = now]]
    /\ UNCHANGED <<store, now, req, emitted, auth, rooms, inbox, emits>>

\* accept() has returned: broker.join, then the handler waits in receive_text
WsJoin(c) ==
    /\ socket[c].pc = "accepting"
    /\ rooms' = Join(rooms, socket[c].sid, c)
    /\ socket' = [socket EXCEPT ![c].pc = "open"]
    /\ UNCHANGED <<store, now, req, emitted, auth, inbox, emits>>

\* the client of an open connection goes away
ClientDrop(c) ==
    /\ socket[c].pc = "open"
    /\ socket[c].alive
    /\ socket' = [socket EXCEPT ![c].alive = FALSE]
    /\ UNCHANGED <<store, now, req, emitted, auth, rooms, inbox, emits>>

\* receive_text raises WebSocketDisconnect: broker.leave
WsDisconnect(c) ==
    /\ socket[c].pc = "open"
    /\ ~socket[c].alive
    /\ rooms' = Leave(rooms, socket[c].sid, c)
    /\ socket' = [socket EXCEPT ![c].pc = "closed"]
    /\ UNCHANGED <<store, now, req, emitted, auth, inbox, emits>>

\* the members the iterator of em still has to reach in the set it iterates
Ahead(em, rms) == {c \in rms[em.room].members : c > em.pos}

\* the set em iterates has changed size since the iterator was made (a
\* deleted room's set is empty)
SizeChanged(em, rms) ==
    \/ rms[em.room].gen # em.gen
    \/ Cardinality(rms[em.room].members) # em.used

\* the for statement of emit asks its iterator for the next member: the
\* call's new state
IterNext(em, rms) ==
    IF SizeChanged(em, rms) THEN [em EXCEPT !.pc = "raised", !.cur = 0]
    ELSE IF Ahead(em, rms) = {} THEN [em EXCEPT !.pc = "returned", !.cur = 0]
    ELSE [em EXCEPT !.pc = "sending", !.cur = Least(Ahead(em, rms)),
                    !.pos = Least(Ahead(em, rms)),
                    !.tried = @ \cup {Least(Ahead(em, rms))}]

\* the rooms after that step: when the iteration is over, the second loop
\* leaves the room for every connection in dead
Reaped(em, rms) ==
    IF IterNext(em, rms).pc = "returned" THEN LeaveAll(rms, em.room, em.dead) ELSE rms

\* the sends pending on the transports after that step
Begun(e, em, rms, sock) ==
    IF IterNext(em, rms).pc = "sending"
    THEN [sock EXCEPT ![IterNext(em, rms).cur].pending = Append(@, e)]
    ELSE sock

\* a handler calls broker.emit(f"session:{sid}", message); the calls are
\* numbered in the order they are made and the message is the call's number
EmitBegin(e, sid) ==
    /\ emits[e].pc = "idle"
    /\ \A d \in Emits : d < e => emits[d].pc # "idle"
    /\ sid \in DOMAIN sessions
    /\ LET em == [IdleEmit EXCEPT !.room = sid,
                                  !.used = Cardinality(rooms[sid].members),
                                  !.gen = rooms[sid].gen,
                                  !.snap = rooms[sid].members]
       IN  /\ emits' = [emits EXCEPT ![e] =
                          IF rooms[sid].members = {} THEN [em EXCEPT !.pc = "returned"]
                          ELSE IterNext(em, rooms)]
           /\ socket' = IF rooms[sid].members = {} THEN socket
                        ELSE Begun(e, em, rooms, socket)

\* the call made by a handler that the model does not follow further
EmitCall(e, sid) ==
    /\ EmitBegin(e, sid)
    /\ UNCHANGED <<store, now, req, emitted, auth, rooms, inbox>>

\* the send emit e is suspended in completes, the oldest pending on its
\* transport: the client has the message, or send_json raises and the
\* connection joins dead; then the loop goes on
EmitSent(e) ==
    /\ emits[e].pc = "sending"
    /\ Head(socket[emits[e].cur].pending) = e
    /\ LET c == emits[e].cur
           ok == socket[c].alive
           em == [emits[e] EXCEPT !.dead = IF ok THEN @ ELSE @ \cup {c}]
           sock == [socket EXCEPT ![c].pending = Tail(@)]
       IN  /\ inbox' = [inbox EXCEPT ![c] = IF ok THEN Append(@, e) ELSE @]
           /\ emits' = [emits EXCEPT ![e] = IterNext(em, rooms)]
           /\ rooms' = Reaped(em, rooms)
           /\ socket' = Begun(e, em, rooms, sock)
    /\ UNCHANGED <<store, now, req, emitted, auth>>

(***************************************************************************)
(* anti_cheat_emit with its first broadcast made through the broker        *)
(***************************************************************************)
\* The strikes are inserted and the loop over them awaits
\* broker.emit(STRIKE_CREATED) for the strike of a one-event batch; the call
\* is outside any try, so what the broker raises ends the request.
AntiCheatStrikesVia(r, e) ==
    /\ req[r].op = "anti_cheat_emit" /\ req[r].pc = "ac_strikes"
    /\ Len(StrikesFor(req[r].sid, req[r].batch)) = 1
    /\ strikes' = strikes \o StrikesFor(req[r].sid, req[r].batch)
    /\ req' = [req EXCEPT ![r].pc = "ac_emit", ![r].emit = e,
                          ![r].autoEnd = ScreenshotEnd(StrikesFor(req[r].sid, req[r].batch))]
    /\ emitted' = Emit(req[r].sid, "STRIKE_CREATED")
    /\ EmitBegin(e, req[r].sid)
    /\ UNCHANGED <<sessions, questions, answers, events, summaries, now, auth, rooms, inbox>>

\* the awaited call is over: the handler goes on to the counters, or the
\* RuntimeError of the broker's iteration leaves it and the request fails
AntiCheatEmitted(r) ==
    /\ req[r].op = "anti_cheat_emit" /\ req[r].pc = "ac_emit"
    /\ emits[req[r].emit].pc \in {"returned", "raised"}
    /\ req' = [req EXCEPT ![r] =
                 IF emits[req[r].emit].pc = "raised"
                 THEN Done("anti_cheat_emit", req[r].sid, "internal_server_error")
                 ELSE [@ EXCEPT !.pc = "ac_inc"]]
    /\ UNCHANGED <<store, now, emitted, auth, stream>>

(***************************************************************************)
(* The clock                                                               *)
(***************************************************************************)
Tick ==
    /\ now < MaxTime
    /\ now' = now + 1
    /\ UNCHANGED <<store, req, emitted, auth, stream>>

\* token time passes, a quantum at a step
Elapse ==
    /\ now < MaxQuanta * Quantum
    /\ now' = now + Quantum
    /\ UNCHANGED <<store, req, emitted, auth, stream>>

(***************************************************************************)
(* Clients                                                                 *)
(***************************************************************************)
Event(sid, seq, type, details, prev) ==
    [sessionId |-> sid, seq |-> seq, type |-> type, details |-> details,
     ts |-> "T1", prevHash |-> prev]

\* a client that fetched the tail and chains one event of type t onto it
ChainedBatches(sid, types) ==
    {<<Event(sid, tail.seq + 1, t, 0, tail.hash)>> :
        tail \in {x \in TailCandidates(sid) : x.seq < MaxSeq}, t \in types}

\* the hashes a client can hold: the empty one and those of stored events
KnownHashes == {EmptyHash} \cup {events[i].hash : i \in 1..Len(events)}

\* any batch of up to MaxBatch events a client may send for sid: any seq, any
\* known hash as the first prevHash; a second event carries the first's
\* digest or repeats the first's prevHash
SingleEvents(sid, types) ==
    {Event(sid, q, t, 0, p) : q \in 1..MaxSeq, t \in types, p \in KnownHashes}

Batches(sid, types) ==
    {<<e>> : e \in SingleEvents(sid, types)}
    \cup (IF MaxBatch < 2 THEN {}
          ELSE UNION {{<<e, Event(sid, q, t, 0, p)>> :
                         q \in 1..MaxSeq, t \in types,
                         p \in {e.prevHash, Digest(e, e.prevHash)}} :
                      e \in SingleEvents(sid, types)})

\* the later steps of the session handlers
Advance(r) ==
    \/ PrecheckWrite(r)
    \/ StartWrite(r)
    \/ NextQuestionInsert(r) \/ NextQuestionUpdate(r)
    \/ SubmitAnswerInsert(r) \/ SubmitAnswerUpdate(r)
    \/ FinalizeInsert(r) \/ FinalizeUpdate(r)

\* the later steps of anti_cheat_emit
AdvanceAntiCheat(r) ==
    \/ AntiCheatInsert(r) \/ AntiCheatStrikes(r) \/ AntiCheatInc(r)
    \/ AntiCheatPolicy(r) \/ AntiCheatPause(r) \/ AntiCheatSummary(r)
    \/ AntiCheatSeal(r)

\* Specification Spec: up to NumReq requests in flight on one session, the
\* anti-cheat client chaining single events onto the tail it fetched.
Next ==
    \E r \in Slots :
        \/ \E n \in 1..MaxN, cr \in BOOLEAN, ca \in BOOLEAN :
              CreateSession(r, "s1", n, cr, ca)
        \/ PrecheckRead(r, "s1", <<>>)
        \/ StartRead(r, "s1")
        \/ NextQuestionRead(r, "s1")
        \/ \E q \in QuestionIdsOf("s1") : SubmitAnswerRead(r, "s1", "s1", q)
        \/ FinalizeRead(r, "s1")
        \/ \E b \in ChainedBatches("s1", {"SCREENSHOT_ATTEMPT", "FS_EXIT"}) :
              AntiCheatLoad(r, "s1", b)
        \/ Advance(r)
        \/ AdvanceAntiCheat(r)

\* Specification SpecChain: ingest through precheck and anti_cheat_emit, one
\* request at a time, with every batch a client may send.
NextChain ==
    \/ CreateSession(1, "s1", 1, TRUE, TRUE)
    \/ \E b \in {<<>>} \cup Batches("s1", {"FOCUS", "FS_EXIT"}) : PrecheckRead(1, "s1", b)
    \/ StartRead(1, "s1")
    \/ \E b \in {<<>>} \cup Batches("s1", {"FOCUS", "FS_EXIT"}) : AntiCheatLoad(1, "s1", b)
    \/ PrecheckTail(1) \/ PrecheckInsert(1) \/ PrecheckWrite(1)
    \/ StartWrite(1)
    \/ AdvanceAntiCheat(1)

SpecChain == Init /\ [][NextChain]_vars

\* Specification SpecPacing: one request at a time while the clock runs.
NextPacing ==
    \/ \E n \in 1..MaxQuestions : CreateSession(1, "s1", n, TRUE, TRUE)
    \/ PrecheckRead(1, "s1", <<>>)
    \/ StartRead(1, "s1")
    \/ NextQuestionRead(1, "s1")
    \/ \E q \in QuestionIdsOf("s1") : SubmitAnswerRead(1, "s1", "s1", q)
    \/ PrecheckWrite(1) \/ StartWrite(1)
    \/ NextQuestionInsert(1) \/ NextQuestionUpdate(1)
    \/ SubmitAnswerInsert(1) \/ SubmitAnswerUpdate(1)
    \/ Tick

SpecPacing == Init /\ [][NextPacing]_vars

Spec == Init /\ [][Next]_vars

\* the single-event batches a client may send on a path: the events name the
\* path's session or another one in their own sessionId field
ResendBatches == {<<e>> : e \in SingleEvents("s1", {"FOCUS"}) \cup SingleEvents("s2", {"FOCUS"})}

\* Specification SpecReplay: one anti-cheat client of s1 sending and resending
\* single events, one request at a time.
NextReplay ==
    \/ CreateSession(1, "s1", 1, TRUE, TRUE)
    \/ \E b \in ResendBatches : AntiCheatLoad(1, "s1", b)
    \/ AntiCheatInsert(1)

SpecReplay == Init /\ [][NextReplay]_vars

\* the proctoring client of a running interview: it emits while the session
\* is Active or Paused, one event at a time, chained onto the tail it fetched;
\* a FACE_MISSING event reports a duration within or beyond the yellow limit
Proctored(sid) == sid \in DOMAIN sessions /\ sessions[sid].state \in {"Active", "Paused"}

ProctorBatches(sid) ==
    {<<Event(sid, tail.seq + 1, t, d, tail.hash)>> :
        tail \in {x \in TailCandidates(sid) : x.seq < MaxSeq},
        t \in {"SCREENSHOT_ATTEMPT", "FS_EXIT", "FACE_MISSING"},
        d \in {0, FaceMissingYellowMax + 1}}

\* Specification SpecPolicy: one session taken to Active and proctored, one
\* request at a time.
NextPolicy ==
    \/ CreateSession(1, "s1", 1, TRUE, TRUE)
    \/ PrecheckRead(1, "s1", <<>>)
    \/ PrecheckWrite(1)
    \/ StartRead(1, "s1")
    \/ StartWrite(1)
    \/ \E b \in ProctorBatches("s1") : Proctored("s1") /\ AntiCheatLoad(1, "s1", b)
    \/ AdvanceAntiCheat(1)

SpecPolicy == Init /\ [][NextPolicy]_vars

\* the bearer tokens a client can present: the minted ones, and payloads it
\* altered or made up, signed with a key of its own
Presentable ==
    tokens \cup {[t EXCEPT !.key = "client_key", !.sessionId = sid,
                           !.scope = sc, !.exp = t.exp + more] :
                    t \in tokens, sid \in SessionIds,
                    sc \in {{}, {AiAsk}}, more \in {0, RevocationTtl}}

\* the audiences decode_jwt is called with
Audiences ==
    {"user-api", "interview-api", "ai-proxy", "anti-cheat", "session",
     "interview-ws", "upload", "webrtc-service"}

\* Specification SpecAuth: two sessions of one user, one request at a time;
\* next_question is called with any presentable bearer token.
NextAuth ==
    \/ \E sid \in SessionIds : CreateSession(1, sid, 1, TRUE, TRUE)
    \/ \E sid \in SessionIds : PrecheckRead(1, sid, <<>>)
    \/ PrecheckWrite(1)
    \/ \E sid \in SessionIds : StartRead(1, sid)
    \/ StartWrite(1)
    \/ \E sid \in SessionIds, tok \in Presentable : NextQuestionAs(1, sid, tok)
    \/ NextQuestionInsert(1)
    \/ NextQuestionUpdate(1)

SpecAuth == Init /\ [][NextAuth]_vars

\* Specification SpecTokens: the tokens of one session while time passes and
\* tokens are revoked, with either revocation store.
InitTokens ==
    /\ sessions = [s \in {} |-> 0]
    /\ questions = <<>> /\ answers = <<>> /\ events = <<>>
    /\ strikes = <<>> /\ summaries = <<>>
    /\ now = 0
    /\ req = [r \in Slots |-> Idle]
    /\ emitted = {}
    /\ tokens = {}
    /\ revoked = {}
    /\ redis \in BOOLEAN
    /\ StreamInit

NextTokens ==
    \/ CreateSession(1, "s1", 1, TRUE, TRUE)
    \/ PrecheckRead(1, "s1", <<>>)
    \/ PrecheckWrite(1)
    \/ StartRead(1, "s1")
    \/ StartWrite(1)
    \/ \E tok \in Presentable : NextQuestionAs(1, "s1", tok)
    \/ NextQuestionInsert(1)
    \/ NextQuestionUpdate(1)
    \/ \E tok \in tokens : RevokeToken(tok.jti)
    \/ Elapse

SpecTokens == InitTokens /\ [][NextTokens]_vars

\* a WST for session sid that a client signed itself
ForgedWst(sid) == [Wst("u1", sid, now) EXCEPT !.key = "client_key"]

\* the query strings a client opens the stream with: no token, a token it
\* was given, or a WST of its own making
QueryTokens ==
    {{}} \cup {{tok} : tok \in tokens} \cup {{ForgedWst(sid)} : sid \in SessionIds}

\* Specification SpecStream: one session is created, prechecked and started;
\* clients open, hold and drop WebSocket connections to the stream of either
\* session id, with any query string, while a handler calls broker.emit and
\* time passes.
NextStream ==
    \/ CreateSession(1, "s1", 1, TRUE, TRUE)
    \/ PrecheckRead(1, "s1", <<>>)
    \/ PrecheckWrite(1)
    \/ StartRead(1, "s1")
    \/ StartWrite(1)
    \/ \E c \in Conns, sid \in SessionIds, toks \in QueryTokens : WsStream(c, sid, toks)
    \/ \E c \in Conns : WsJoin(c)
    \/ \E c \in Conns : ClientDrop(c)
    \/ \E c \in Conns : WsDisconnect(c)
    \/ EmitCall(1, "s1")
    \/ EmitSent(1)
    \/ Elapse

SpecStream == Init /\ [][NextStream]_vars

\* Specification SpecBroker: the session's clients join its room with the
\* WST they were given and drop out while handlers call broker.emit.
NextBroker ==
    \/ CreateSession(1, "s1", 1, TRUE, TRUE)
    \/ PrecheckRead(1, "s1", <<>>)
    \/ PrecheckWrite(1)
    \/ StartRead(1, "s1")
    \/ StartWrite(1)
    \/ \E c \in Conns, tok \in {t \in tokens : t.aud = "interview-ws"} :
          WsStream(c, "s1", {tok})
    \/ \E c \in Conns : WsJoin(c)
    \/ \E c \in Conns : ClientDrop(c)
    \/ \E c \in Conns : WsDisconnect(c)
    \/ \E e \in Emits : EmitCall(e, "s1")
    \/ \E e \in Emits : EmitSent(e)

SpecBroker == Init /\ [][NextBroker]_vars

\* Specification SpecCreate: two users create sessions, with and without the
\* consents, while time passes.
NextCreate ==
    \/ \E sid \in SessionIds, sub \in Users, n \in 1..MaxN, cr \in BOOLEAN, ca \in BOOLEAN :
          CreateSessionOf(1, sid, sub, n, cr, ca)
    \/ Elapse

SpecCreate == Init /\ [][NextCreate]_vars

\* the question ids a client may name in an answer: stored ones and one that
\* no question has
AnswerQuestionIds == 1..(Len(questions) + 1)

\* Specification SpecAnswer: up to NumReq requests in flight on one session
\* that is created, prechecked, started, asked questions, answered (the
\* answer's body naming either session and any question id, the analysis
\* going through or not) and finalized.
NextAnswer ==
    \E r \in Slots :
        \/ CreateSession(r, "s1", 1, TRUE, TRUE)
        \/ PrecheckRead(r, "s1", <<>>)
        \/ PrecheckWrite(r)
        \/ StartRead(r, "s1")
        \/ StartWrite(r)
        \/ NextQuestionRead(r, "s1")
        \/ NextQuestionInsert(r)
        \/ NextQuestionUpdate(r)
        \/ \E b \in SessionIds, q \in AnswerQuestionIds : SubmitAnswerRead(r, "s1", b, q)
        \/ SubmitAnswerInsert(r)
        \/ \E analysed \in BOOLEAN : SubmitAnswerFinish(r, analysed)
        \/ FinalizeRead(r, "s1")
        \/ FinalizeInsert(r)
        \/ FinalizeUpdate(r)

SpecAnswer == Init /\ [][NextAnswer]_vars

\* Specification SpecPrecheck: prechecks with every shape of the network
\* check and with any single-event batch, one request at a time, on a session
\* that is also started and proctored (FS_EXIT events pause it).
NextPrecheck ==
    \/ CreateSession(1, "s1", 1, TRUE, TRUE)
    \/ \E b \in {<<>>} \cup {<<e>> : e \in SingleEvents("s1", {"FOCUS"})},
          network \in NetworkChecks :
          PrecheckReadWith(1, "s1", b, network)
    \/ PrecheckTail(1) \/ PrecheckInsert(1) \/ PrecheckWrite(1)
    \/ StartRead(1, "s1")
    \/ StartWrite(1)
    \/ \E b \in ChainedBatches("s1", {"FS_EXIT"}) : Proctored("s1") /\ AntiCheatLoad(1, "s1", b)
    \/ AdvanceAntiCheat(1)

SpecPrecheck == Init /\ [][NextPrecheck]_vars

\* Specification SpecIssue: the token endpoints called for either session id,
\* one request at a time, while a session is created, prechecked, started,
\* proctored (FS_EXIT events pause and end it) and finalized, and one quantum
\* of time passes.
NextIssue ==
    \/ CreateSession(1, "s1", 1, TRUE, TRUE)
    \/ PrecheckRead(1, "s1", <<>>)
    \/ PrecheckWrite(1)
    \/ StartRead(1, "s1")
    \/ StartWrite(1)
    \/ \E b \in ChainedBatches("s1", {"FS_EXIT"}) : Proctored("s1") /\ AntiCheatLoad(1, "s1", b)
    \/ AdvanceAntiCheat(1)
    \/ FinalizeRead(1, "s1")
    \/ FinalizeInsert(1)
    \/ FinalizeUpdate(1)
    \/ \E sid \in SessionIds : RefreshTokens(1, sid)
    \/ \E sid \in SessionIds : IssueAcet(1, sid)
    \/ \E sid \in SessionIds : IssueAipt(1, sid)
    \/ now < Quantum /\ Elapse

SpecIssue == Init /\ [][NextIssue]_vars

\* Specification SpecWritten: sessions created (with and without consent),
\* prechecked without events and started, one request at a time, with `db`
\* resolved in start_interview as the module resolves it.
NextWritten ==
    \/ \E sid \in SessionIds, n \in 1..MaxN, cr \in BOOLEAN, ca \in BOOLEAN :
          CreateSession(1, sid, n, cr, ca)
    \/ \E sid \in SessionIds, network \in NetworkChecks :
          PrecheckReadWith(1, sid, <<>>, network)
    \/ PrecheckWrite(1)
    \/ \E sid \in SessionIds : StartAsWritten(1, sid)
    \/ Elapse

SpecWritten == Init /\ [][NextWritten]_vars

\* Specification SpecResume: a session is started and proctored with
\* one-event batches of FS_EXIT and TAB_SWITCH, one request at a time; a
\* paused session is resumed through precheck and start.
NextResume ==
    \/ CreateSession(1, "s1", 1, TRUE, TRUE)
    \/ PrecheckRead(1, "s1", <<>>)
    \/ PrecheckWrite(1)
    \/ StartRead(1, "s1")
    \/ StartWrite(1)
    \/ \E b \in ChainedBatches("s1", {"FS_EXIT", "TAB_SWITCH"}) :
          Proctored("s1") /\ AntiCheatLoad(1, "s1", b)
    \/ AdvanceAntiCheat(1)

SpecResume == Init /\ [][NextResume]_vars

\* Specification SpecStrike: a started session is proctored with FS_EXIT
\* events, one request at a time, while its clients join the room and drop
\* out; the STRIKE_CREATED broadcast of each ingest goes through the broker.
NextStrike ==
    \/ CreateSession(1, "s1", 1, TRUE, TRUE)
    \/ PrecheckRead(1, "s1", <<>>)
    \/ PrecheckWrite(1)
    \/ StartRead(1, "s1")
    \/ StartWrite(1)
    \/ \E c \in Conns, tok \in {t \in tokens : t.aud = "interview-ws"} :
          WsStream(c, "s1", {tok})
    \/ \E c \in Conns : WsJoin(c)
    \/ \E c \in Conns : ClientDrop(c)
    \/ \E c \in Conns : WsDisconnect(c)
    \/ \E b \in ChainedBatches("s1", {"FS_EXIT"}) : Proctored("s1") /\ AntiCheatLoad(1, "s1", b)
    \/ AntiCheatInsert(1)
    \/ \E e \in Emits : AntiCheatStrikesVia(1, e)
    \/ \E e \in Emits : EmitSent(e)
    \/ AntiCheatEmitted(1)
    \/ AntiCheatInc(1)
    \/ AntiCheatPolicy(1)
    \/ AntiCheatPause(1)

SpecStrike == Init /\ [][NextStrike]_vars

\* a client that fetched the tail of sid and chains onto it one event whose
\* sessionId field names either session
CrossBatches(sid) ==
    {<<Event(b, tail.seq + 1, "FOCUS", 0, tail.hash)>> :
        tail \in {x \in TailCandidates(sid) : x.seq < MaxSeq}, b \in SessionIds}

\* Specification SpecFrame: ingest on the path of one session, through
\* precheck and through anti_cheat_emit, of events whose body names either
\* session; one request at a time.
NextFrame ==
    \/ \E sid \in SessionIds : CreateSession(1, sid, 1, TRUE, TRUE)
    \/ \E b \in {<<>>} \cup CrossBatches("s1") : PrecheckRead(1, "s1", b)
    \/ PrecheckTail(1) \/ PrecheckInsert(1) \/ PrecheckWrite(1)
    \/ StartRead(1, "s1")
    \/ StartWrite(1)
    \/ \E b \in CrossBatches("s1") : AntiCheatLoad(1, "s1", b)
    \/ AntiCheatInsert(1)

SpecFrame == Init /\ [][NextFrame]_vars

\* Specification SpecBound: two sessions, each of its own user; precheck,
\* answer and finalize are called for either session with any token that was
\* minted, one request at a time.
NextBound ==
    \/ CreateSessionOf(1, "s1", "u1", 1, TRUE, TRUE)
    \/ CreateSessionOf(1, "s2", "u2", 1, TRUE, TRUE)
    \/ \E sid \in SessionIds : IssueAcet(1, sid)
    \/ \E sid \in SessionIds, tok \in tokens : PrecheckAs(1, sid, tok, <<>>)
    \/ PrecheckWrite(1)
    \/ \E sid \in SessionIds : StartRead(1, sid)
    \/ StartWrite(1)
    \/ \E sid \in SessionIds, tok \in tokens, b \in SessionIds :
          SubmitAnswerAs(1, sid, tok, b, 1)
    \/ SubmitAnswerInsert(1)
    \/ SubmitAnswerUpdate(1)
    \/ \E sid \in SessionIds, tok \in tokens : FinalizeAs(1, sid, tok)
    \/ FinalizeInsert(1)
    \/ FinalizeUpdate(1)

SpecBound == Init /\ [][NextBound]_vars

\* Specification SpecOwner: two users log in, each creates a session of their
\* own; the session-cookie operations are called for either session with any
\* token that was minted, one request at a time.
NextOwner ==
    \/ \E u \in Users : Login(u)
    \/ CreateSessionOf(1, "s1", "u1", 1, TRUE, TRUE)
    \/ CreateSessionOf(1, "s2", "u2", 1, TRUE, TRUE)
    \/ \E sid \in SessionIds : PrecheckRead(1, sid, <<>>)
    \/ PrecheckWrite(1)
    \/ \E sid \in SessionIds, c \in tokens : StartAs(1, sid, c)
    \/ StartWrite(1)
    \/ \E sid \in SessionIds, c \in tokens : RefreshTokensAs(1, sid, c)
    \/ \E sid \in SessionIds, c \in tokens : IssueAcetAs(1, sid, c)
    \/ \E sid \in SessionIds, c \in tokens : IssueAiptAs(1, sid, c)

SpecOwner == Init /\ [][NextOwner]_vars

\* Specification SpecEmit: up to NumReq requests in flight on one session
\* that is asked a question, answered (the analysis going through or not)
\* and proctored with FS_EXIT events up to its pause and its end.
NextEmit ==
    \E r \in Slots :
        \/ CreateSession(r, "s1", 1, TRUE, TRUE)
        \/ PrecheckRead(r, "s1", <<>>)
        \/ PrecheckWrite(r)
        \/ StartRead(r, "s1")
        \/ StartWrite(r)
        \/ NextQuestionRead(r, "s1")
        \/ NextQuestionInsert(r)
        \/ NextQuestionUpdate(r)
        \/ \E q \in AnswerQuestionIds : SubmitAnswerRead(r, "s1", "s1", q)
        \/ SubmitAnswerInsert(r)
        \/ \E analysed \in BOOLEAN : SubmitAnswerFinish(r, analysed)
        \/ \E b \in ChainedBatches("s1", {"FS_EXIT"}) : Proctored("s1") /\ AntiCheatLoad(r, "s1", b)
        \/ AdvanceAntiCheat(r)

SpecEmit == Init /\ [][NextEmit]_vars

\* the tests of a body: up to MaxTests of two distinct tests, in any order,
\* repeated or not
TestIds == {"t1", "t2"}
TestLists == UNION {[1..n -> TestIds] : n \in 0..MaxTests}

\* Specification SpecEval: code_eval called with any code and tests, one
\* request at a time, each worker behaving in any of the ways it can; the
\* loop over the tests is not held up for ever.
NextEval ==
    \/ \E code \in SUBSET CodeFragments, tests \in TestLists :
          CodeEvalScreen(1, "s1", code, tests)
    \/ \E run \in WorkerRuns : CodeEvalTest(1, run)

SpecEval ==
    Init /\ [][NextEval]_vars /\ WF_vars(\E run \in WorkerRuns : CodeEvalTest(1, run))

(***************************************************************************)
(* Claims                                                                  *)
(***************************************************************************)
AllowedTransitions ==
    {<<"PendingPrecheck", "Ready">>, <<"Ready", "Active">>, <<"Active", "Completed">>,
     <<"Active", "Paused">>, <<"Paused", "Ready">>, <<"Active", "Ended">>,
     <<"Paused", "Ended">>}

\* C1: every change of a session's state, by any step of any handler, is one
\* of the transitions of the session state machine.
C1_OnlyAllowedTransitions ==
    [][\A s \in DOMAIN sessions :
         sessions'[s].state # sessions[s].state
           => <<sessions[s].state, sessions'[s].state>> \in AllowedTransitions]_vars

\* C2: once a session is Completed or Ended no step changes its state,
\* endCode, sealedAt, askedCount or awaitingAnswer, or adds a question,
\* answer, strike or summary of the session.
C2_TerminalImmutable ==
    [][\A s \in DOMAIN sessions :
         sessions[s].state \in Terminal =>
           /\ sessions'[s].state = sessions[s].state
           /\ sessions'[s].endCode = sessions[s].endCode
           /\ sessions'[s].sealedAt = sessions[s].sealedAt
           /\ sessions'[s].askedCount = sessions[s].askedCount
           /\ sessions'[s].awaitingAnswer = sessions[s].awaitingAnswer
           /\ QuestionIdsOf(s)' = QuestionIdsOf(s)
           /\ AnswersOf(s)' = AnswersOf(s)
           /\ StrikesOf(s)' = StrikesOf(s)
           /\ SummariesOf(s)' = SummariesOf(s)]_vars

\* the step in which slot r takes up a new request of handler op
Starts(r, op) == Free(r) /\ req'[r] # req[r] /\ req'[r].op = op

\* C3: a finalize request that finds the session in a state other than Active
\* ends at once with invalid_state (so it inserts no summary and writes no
\* state), and a session becomes Completed only from Active.
C3_FinalizeRequiresActive ==
    [][/\ \A r \in Slots :
            (/\ Starts(r, "finalize")
             /\ req'[r].sid \in DOMAIN sessions
             /\ sessions[req'[r].sid].state # "Active")
              => (req'[r].pc = "done" /\ req'[r].resp = "invalid_state")
       /\ \A s \in DOMAIN sessions :
            (sessions'[s].state = "Completed" /\ sessions[s].state # "Completed")
              => sessions[s].state = "Active"]_vars

\* C4: every session has at most one summary, and has one exactly when its
\* state is Completed or Ended.
C4_OneSummaryIffTerminal ==
    \A s \in DOMAIN sessions :
        /\ Cardinality(SummariesOf(s)) <= 1
        /\ (SummariesOf(s) # {}) <=> (sessions[s].state \in Terminal)

\* C5: askedCount of a session never decreases and stays within
\* 0..config.questionCount.
C5_AskedCountBounded ==
    [][\A s \in DOMAIN sessions :
         /\ sessions'[s].askedCount >= sessions[s].askedCount
         /\ 0 <= sessions'[s].askedCount
         /\ sessions'[s].askedCount <= sessions'[s].questionCount]_vars

\* C6: the stored questions of a session have pairwise distinct numbers, each
\* within 1..askedCount of the session.
C6_QuestionNumbersUnique ==
    \A s \in DOMAIN sessions :
        /\ \A i, j \in QuestionIdsOf(s) :
              i # j => questions[i].number # questions[j].number
        /\ \A i \in QuestionIdsOf(s) :
              1 <= questions[i].number /\ questions[i].number <= sessions[s].askedCount

\* C7: of two next_question requests that passed their checks on the same
\* read of a session (neither had written the session when the other read
\* it), at most one creates a question.
C7_AtMostOneCreates ==
    \A r1, r2 \in Slots :
        (/\ r1 # r2
         /\ req[r1].op = "next_question" /\ req[r2].op = "next_question"
         /\ req[r1].sid = req[r2].sid
         /\ req[r1].asked = req[r2].asked)
          => ~(req[r1].pc = "nq_update" /\ req[r2].pc = "nq_update")

\* the most recently created question of session s
Newest(s) == CHOOSE i \in QuestionIdsOf(s) : \A j \in QuestionIdsOf(s) : j <= i

\* C8: while awaitingAnswer is set, the newest question of the session has
\* number askedCount and no stored answer references its id.
C8_AwaitingMeansOutstanding ==
    \A s \in DOMAIN sessions :
        sessions[s].awaitingAnswer =>
            /\ QuestionIdsOf(s) # {}
            /\ questions[Newest(s)].number = sessions[s].askedCount
            /\ \A a \in 1..Len(answers) : answers[a].questionId # Newest(s)

\* C9: a next_question request arriving less than RateWindow seconds after
\* lastAskedAt, on an Active session with awaitingAnswer false and
\* askedCount < questionCount, ends at once with rate_limited (so it creates
\* no question and writes nothing to the session).
C9_RateLimited ==
    [][\A r \in Slots :
         (/\ Starts(r, "next_question")
          /\ req'[r].sid \in DOMAIN sessions
          /\ LET sess == sessions[req'[r].sid]
             IN /\ sess.state = "Active"
                /\ ~sess.awaitingAnswer
                /\ sess.askedCount < sess.questionCount
                /\ sess.lastAskedAt # NoTime
                /\ now - sess.lastAskedAt < RateWindow)
           => (req'[r].pc = "done" /\ req'[r].resp = "rate_limited")]_vars

\* the stored event of session s that precedes event i in seq order
IsFirst(s, i) == \A j \in EventsOf(s) : events[j].seq >= events[i].seq
IsPredecessor(s, j, i) ==
    /\ events[j].seq < events[i].seq
    /\ \A k \in EventsOf(s) : events[k].seq < events[i].seq => events[k].seq <= events[j].seq

\* C10: the stored events of a session have pairwise distinct seq; the one
\* with the least seq has the empty prevHash and every other one has as
\* prevHash the hash of the event just before it in seq order.
C10_ChainWellFormed ==
    \A s \in SessionIds :
        /\ \A i, j \in EventsOf(s) : i # j => events[i].seq # events[j].seq
        /\ \A i \in EventsOf(s) :
              IF IsFirst(s, i) THEN events[i].prevHash = EmptyHash
              ELSE \E j \in EventsOf(s) :
                      IsPredecessor(s, j, i) /\ events[i].prevHash = events[j].hash

\* C11: the event log of a session never forks: no two stored events of a
\* session carry the same prevHash (of two ingests that loaded the same tail
\* at most one is appended).
C11_LogNeverForks ==
    \A s \in SessionIds :
        \A i, j \in EventsOf(s) : i # j => events[i].prevHash # events[j].prevHash

\* the event as the client sent it: the stored record without its hash
Unhashed(rec) ==
    [sessionId |-> rec.sessionId, seq |-> rec.seq, type |-> rec.type,
     details |-> rec.details, ts |-> rec.ts, prevHash |-> rec.prevHash]

\* batch b is what the latest accepted ingest stored
LastAccepted(b) ==
    /\ b # <<>>
    /\ Len(events) >= Len(b)
    /\ \A k \in 1..Len(b) : Unhashed(events[Len(events) - Len(b) + k]) = SortBySeq(b)[k]

\* C12: an ingest request that re-submits the batch stored by the latest
\* accepted ingest ends at once with event_seq_replay_or_out_of_order and the
\* event log (hence the tail) is the same after it as before.
C12_ReplayRejected ==
    [][\A b \in ResendBatches :
         (LastAccepted(b) /\ AntiCheatLoad(1, "s1", b))
           => /\ req'[1].pc = "done"
              /\ req'[1].resp = "event_seq_replay_or_out_of_order"
              /\ events' = events]_vars

\* some event of batch b carries a prevHash other than the running previous
\* hash, whichever stored tail of s1 the request loads
ChainBroken(b) ==
    /\ b # <<>>
    /\ \A tail \in TailCandidates("s1") : ~ChainWalk(SortBySeq(b), tail.hash).ok

\* the request left every collection and the broadcasts as they were
NothingMutated == UNCHANGED <<sessions, questions, answers, events, strikes, summaries, emitted>>

\* the seq check comes first: its error wins over the chain error
RejectionOf(b) ==
    IF \E tail \in TailCandidates("s1") : SeqReplayed(SortBySeq(b), tail.seq)
    THEN "event_seq_replay_or_out_of_order" ELSE "event_chain_broken"

IngestDone == req[1] = Done("anti_cheat_emit", "s1", "ok")

\* the event stored last, which under SpecPolicy is the batch of the ingest
\* that ended last
LastEvent == events[Len(events)]

Emitted(sid, type) == [room |-> sid, type |-> type] \in emitted

OnlyFsExit == \A i \in 1..Len(events) : events[i].type = "FS_EXIT"

\* C15: FS_EXIT events ingested one per batch into a session that was Active
\* and had none: when the first ingest has ended the session is still Active;
\* when the second has ended it is Paused with pauseReason fs_exit and
\* SESSION_PAUSED has been emitted; when the third has ended it is Ended with
\* endCode fs_exit_excess.
C15_FsExitEscalation ==
    (IngestDone /\ OnlyFsExit)
      => /\ Len(events) = 1 => sessions["s1"].state = "Active"
         /\ Len(events) = 2 =>
               /\ sessions["s1"].state = "Paused"
               /\ sessions["s1"].pauseReason = "fs_exit"
               /\ Emitted("s1", "SESSION_PAUSED")
         /\ Len(events) = 3 =>
               /\ sessions["s1"].state = "Ended"
               /\ sessions["s1"].endCode = "fs_exit_excess"

\* the red FACE_MISSING strikes of session s
RedFaceMissing(s) ==
    {i \in StrikesOf(s) : strikes[i].type = "FACE_MISSING" /\ strikes[i].severity = "red"}

\* C16: once an ingest that brought the red FACE_MISSING strikes of an Active
\* or Paused session to 3 has ended, the session is Ended with endCode
\* face_missing.
C16_FaceMissingSeals ==
    (IngestDone /\ Cardinality(RedFaceMissing("s1")) >= 3)
      => /\ sessions["s1"].state = "Ended"
         /\ sessions["s1"].endCode = "face_missing"

\* the step in which slot 1 takes up a next_question request for session b
\* that bears token tok
CallsNextQuestion(b, tok) == Free(1) /\ NextQuestionAs(1, b, tok)

\* C17: a next_question request for session b bearing a valid, unexpired AIPT
\* whose sessionId claim names another session ends at once with a 403, so it
\* creates no question in b and changes no field of b.
C17_AiptBoundToSession ==
    [][\A b \in SessionIds, tok \in tokens :
         (/\ tok.aud = "ai-proxy"
          /\ tok.sessionId # b
          /\ DecodeJwt(tok, "ai-proxy", now) = "ok"
          /\ b \in DOMAIN sessions
          /\ CallsNextQuestion(b, tok))
           => /\ req'[1].pc = "done"
              /\ HttpStatus(req'[1].resp) = 403]_vars

\* C18: a next_question request bearing a valid IST (audience interview-api,
\* scope interview:session:<id>) ends at once with 403 insufficient_scope, not
\* with a 401, and creates no question.
C18_IstGetsInsufficientScope ==
    [][\A b \in SessionIds, tok \in tokens :
         (/\ tok.aud = "interview-api"
          /\ DecodeJwt(tok, "interview-api", now) = "ok"
          /\ CallsNextQuestion(b, tok))
           => /\ req'[1] = Done("next_question", b, "insufficient_scope")
              /\ HttpStatus(req'[1].resp) = 403
              /\ questions' = questions]_vars

RevokeCalled(jti) == \E e \in revoked : e.jti = jti

Finished(e) == emits[e].pc \in {"returned", "raised"}

Members(sid) == rooms[sid].members

\* C21: when a call of emit is over, send_json was called on every connection
\* that was a member when the call began (and still is one), and every
\* connection whose send failed has left the room.
C21_EmitReachesEveryMember ==
    \A e \in Emits :
        Finished(e) =>
            /\ (emits[e].snap \cap Members(emits[e].room)) \subseteq emits[e].tried
            /\ emits[e].dead \cap Members(emits[e].room) = {}

\* the place of message e in what connection c received (0: not received)
PlaceIn(c, e) ==
    IF \E i \in 1..Len(inbox[c]) : inbox[c][i] = e
    THEN CHOOSE i \in 1..Len(inbox[c]) : inbox[c][i] = e
    ELSE 0

\* C22: of two calls of emit for the same room, a connection that received
\* the messages of both received the earlier call's message first.
C22_RoomFifo ==
    \A c \in Conns, e1 \in Emits, e2 \in Emits :
        (/\ e1 < e2
         /\ emits[e1].room = emits[e2].room
         /\ PlaceIn(c, e1) > 0 /\ PlaceIn(c, e2) > 0)
            => PlaceIn(c, e1) < PlaceIn(c, e2)

\* tok is a WST the server minted for session sid, not expired at time t
ValidWst(tok, sid, t) ==
    /\ tok \in tokens
    /\ tok.aud = "interview-ws"
    /\ tok.scope = {Scope("ws:interview", sid)}
    /\ t < tok.exp

\* C23: a stream connection without a token is closed with 4401, one whose
\* token is not a valid WST for the path's id is closed with 4403, neither is
\* ever in a room; every member of room session:<id> presented a valid WST
\* for that id; a connection whose handler has ended is in no room.
C23_StreamAdmission ==
    \A c \in Conns :
        /\ (socket[c].pc # "new" /\ socket[c].tok = {})
              => socket[c].pc = "closed" /\ socket[c].code = 4401
        /\ (socket[c].pc # "new" /\ \E tok \in socket[c].tok :
                                        ~ValidWst(tok, socket[c].sid, socket[c].at))
              => socket[c].pc = "closed" /\ socket[c].code = 4403
        /\ socket[c].code \in {4401, 4403}
              => inbox[c] = <<>> /\ \A sid \in SessionIds : c \notin Members(sid)
        /\ \A sid \in SessionIds :
              c \in Members(sid)
                 => socket[c].sid = sid /\ \E tok \in socket[c].tok : ValidWst(tok, sid, socket[c].at)
        /\ socket[c].pc = "closed" => \A sid \in SessionIds : c \notin Members(sid)

\* one connection was refused for an expired WST of the path's session; the
\* other was a member of the room, received a message, disconnected and left
C23_Witness ==
    /\ \E c \in Conns :
          /\ socket[c].code = 4403
          /\ \E tok \in socket[c].tok :
                tok \in tokens /\ tok.scope = {Scope("ws:interview", socket[c].sid)}
    /\ \E c \in Conns : socket[c].pc = "closed" /\ socket[c].code = 0 /\ inbox[c] # <<>>

\* the sessions other than sid are what they were
OthersKept(sid) ==
    \A s \in DOMAIN sessions : s # sid => s \in DOMAIN sessions' /\ sessions'[s] = sessions[s]

\* C24: create_session without both consents answers consent_required and
\* stores no session and mints no token; with both it stores exactly one new
\* session, in PendingPrecheck with askedCount 0 and awaitingAnswer false,
\* owned by the caller's sub, and mints an IST that auth_ist admits for that
\* session.
C24_CreateSession ==
    [][\A sid \in SessionIds, sub \in Users, n \in 1..MaxN, cr \in BOOLEAN, ca \in BOOLEAN :
         CreateSessionOf(1, sid, sub, n, cr, ca) =>
            IF ~cr \/ ~ca
            THEN /\ req'[1] = Done("create_session", sid, "consent_required")
                 /\ sessions' = sessions
                 /\ tokens' = tokens
            ELSE /\ req'[1] = Done("create_session", sid, "ok")
                 /\ DOMAIN sessions' = DOMAIN sessions \cup {sid}
                 /\ sid \notin DOMAIN sessions
                 /\ OthersKept(sid)
                 /\ sessions'[sid].state = "PendingPrecheck"
                 /\ sessions'[sid].askedCount = 0
                 /\ sessions'[sid].awaitingAnswer = FALSE
                 /\ sessions'[sid].userId = sub
                 /\ \E tok \in tokens' \ tokens :
                       /\ tokens' = tokens \cup {tok}
                       /\ tok.sub = sub
                       /\ tok.sessionId = sid
                       /\ tok.scope = {Scope("interview:session", sid)}
                       /\ AuthIst(tok, now) = "ok"]_vars

\* the second user has created a session after some time, and then a request
\* without the consents was refused
C24_Witness ==
    /\ \E s \in DOMAIN sessions : sessions[s].userId = "u2"
    /\ \E tok \in tokens : tok.sub = "u2" /\ tok.iat > 0
    /\ req[1].resp = "consent_required"

\* slot r holds a submit_answer request at position pc
AnswerAt(r, pc) == req[r].op = "submit_answer" /\ req[r].pc = pc

PrecheckStep(pc) ==
    req[1].op = "submit_precheck" /\ req[1].pc = pc /\ req'[1] # req[1]

\* C26: a submit_precheck request that reads a state other than
\* PendingPrecheck or Paused ends with invalid_state and changes neither the
\* state nor the event log; one that reads PendingPrecheck or Paused, once
\* its events (if any) are validated and stored, sets the state to Ready and
\* answers canProceed with overallStatus warning exactly when the network
\* check is a dict whose status is "warning", and pass otherwise.
C26_Precheck ==
    [][/\ \A b \in {<<>>} \cup {<<e>> : e \in SingleEvents("s1", {"FOCUS"})},
             network \in NetworkChecks :
             (PrecheckReadWith(1, "s1", b, network) /\ "s1" \in DOMAIN sessions) =>
                 /\ sessions' = sessions /\ events' = events
                 /\ IF sessions["s1"].state \notin {"PendingPrecheck", "Paused"}
                    THEN req'[1] = Done("submit_precheck", "s1", "invalid_state")
                    ELSE /\ req'[1].pc = IF b = <<>> THEN "pc_write" ELSE "pc_tail"
                         /\ req'[1].network = network
       /\ PrecheckStep("pc_insert") =>
             /\ sessions' = sessions
             /\ req'[1].pc = "pc_write" /\ req'[1].network = req[1].network
       /\ PrecheckStep("pc_write") =>
             /\ events' = events
             /\ sessions'["s1"].state = "Ready"
             /\ req'[1].pc = "done" /\ req'[1].resp = "ok"
             /\ req'[1].canProceed
             /\ req'[1].overallStatus # "fail"
             /\ req'[1].overallStatus = "warning"
                   <=> (req[1].network.kind = "dict" /\ req[1].network.status = "warning")
             /\ req'[1].overallStatus = "pass"
                   <=> ~(req[1].network.kind = "dict" /\ req[1].network.status = "warning")]_vars

\* a paused session was prechecked back to Ready, with a FOCUS event stored,
\* and the response said pass
C26_Witness ==
    /\ req[1].op = "submit_precheck" /\ req[1].pc = "done" /\ req[1].resp = "ok"
    /\ req[1].overallStatus = "pass"
    /\ "s1" \in DOMAIN sessions
    /\ sessions["s1"].state = "Ready" /\ sessions["s1"].pauseReason # ""
    /\ \E i \in 1..Len(events) : events[i].type = "FOCUS"

\* the stored events of session sid whose type earns a strike
StrikingEventsOf(sid) == {i \in EventsOf(sid) : events[i].type \in StrikeTypes}

\* C27: when no request is in flight, the strikes of a session are as many as
\* its stored events of the types SCREENSHOT_ATTEMPT, FS_EXIT, TAB_SWITCH and
\* FACE_MISSING, whichever endpoint stored them.
C27_StrikePerEvent ==
    Free(1) => Cardinality(StrikesOf("s1")) = Cardinality(StrikingEventsOf("s1"))

\* request r starts and ends the call of operation op for a session that
\* exists, in this step
Calls(r, op) == Starts(r, op) /\ req'[r].sid \in DOMAIN sessions

\* the tokens of audience aud among toks
OfAud(toks, aud) == {tok \in toks : tok.aud = aud}

\* C28: token/acet issues an ACET only for a session that is Ready, Active or
\* Paused; for a session in PendingPrecheck, Completed or Ended the request
\* is refused and no token is minted.
C28_AcetOnlyWhenProctorable ==
    [][\A r \in Slots :
          (/\ Calls(r, "issue_acet")
           /\ sessions[req'[r].sid].state \notin {"Ready", "Active", "Paused"})
          => /\ req'[r].resp # "ok"
             /\ req'[r].minted = {}
             /\ tokens' = tokens]_vars

C30_HappyPath ==
    [][\A r \in Slots :
          (/\ req[r].op = "submit_precheck" /\ req[r].resp = "ok"
           /\ req[r].overallStatus = "pass" /\ req[r].canProceed
           /\ Calls(r, "start_interview")
           /\ req'[r].sid = req[r].sid
           /\ sessions[req[r].sid].state = "Ready"
           /\ sessions[req[r].sid].questionCount = 1)
          => req'[r].resp \in {"", "ok"}]_vars

\* the end the sequence is to reach, which the handlers' own steps do reach
\* when db is the connected store
C30_End ==
    /\ "s1" \in DOMAIN sessions
    /\ sessions["s1"].state = "Completed"
    /\ sessions["s1"].askedCount = 1
    /\ ~sessions["s1"].awaitingAnswer
    /\ Len(summaries) = 1
    /\ Len(answers) = 1
    /\ \A r \in Slots : req[r].resp \in {"", "ok"}

\* the indices of the results whose pass is true
PassedIn(results) == {i \in 1..Len(results) : results[i].pass}

\* the results so far are one per test evaluated, in test order, with the
\* passes counted; a worker alive after the limit is recorded as a failed
\* test with error timeout and is terminated, and no other is
EvalSound(r) ==
    /\ Len(r.results) <= Len(r.tests)
    /\ Len(r.workers) = Len(r.results)
    /\ r.passed = Cardinality(PassedIn(r.results))
    /\ \A i \in 1..Len(r.results) :
         /\ r.results[i].test = r.tests[i]
         /\ (r.workers[i] = "terminated") <=> (r.results[i].error = "timeout")
         /\ r.results[i].error = "timeout" => ~r.results[i].pass
         /\ r.results[i].pass => r.results[i].error = "absent"

C33_BusMutualExclusion ==
    [][\A e \in Emits :
          (emits[e].pc = "sending" /\ emits' = emits)
          => rooms'[emits[e].room] = rooms[emits[e].room]]_vars

\* C34: a broadcast is made only once the store holds what it reports: at
\* the step that emits QUESTION_CREATED the question is stored and askedCount
\* counts it; at SESSION_PAUSED the state is Paused for fs_exit; at
\* SESSION_ENDED a Summary of the session is stored and the state is Ended
\* with its endCode; at FEEDBACK_CREATED an answer carries immediateFeedback
\* for a question of the session.
C34_EmitAfterWrite ==
    [][\A m \in emitted' \ emitted :
          LET sess == sessions'[m.room]
          IN /\ m.room \in DOMAIN sessions'
             /\ m.type = "QUESTION_CREATED" =>
                  /\ sess.askedCount >= 1
                  /\ sess.awaitingAnswer
                  /\ \E q \in 1..Len(questions) :
                       /\ questions[q].sessionId = m.room
                       /\ questions[q].number <= sess.askedCount
             /\ m.type = "SESSION_PAUSED" =>
                  sess.state = "Paused" /\ sess.pauseReason = "fs_exit"
             /\ m.type = "SESSION_ENDED" =>
                  /\ sess.state = "Ended" /\ sess.endCode # ""
                  /\ \E i \in 1..Len(summaries) : summaries[i].sessionId = m.room
             /\ m.type = "FEEDBACK_CREATED" =>
                  \E a \in 1..Len(answers') :
                      /\ answers'[a].immediateFeedback
                      /\ QuestionFound(answers'[a].questionId, m.room)]_vars

\* all four broadcasts were made for the session
C34_Witness ==
    /\ \A type \in {"QUESTION_CREATED", "FEEDBACK_CREATED", "SESSION_PAUSED", "SESSION_ENDED"} :
         [room |-> "s1", type |-> type] \in emitted
    /\ sessions["s1"].state = "Ended"
    /\ \E a \in 1..Len(answers) : answers[a].immediateFeedback

\* C35: an IST or ACET minted for one session is not accepted for an
\* operation addressed to another: precheck, answer and finalize called on
\* the path of a session with a token whose sessionId is another's are
\* rejected: the request ends at once with an error and the handler makes
\* none of its writes.
C35_TokenBoundToPath ==
    [][\A sid \in DOMAIN sessions, tok \in tokens :
          (/\ tok.sessionId # sid
           /\ \/ PrecheckAs(1, sid, tok, <<>>)
              \/ \E b \in SessionIds : SubmitAnswerAs(1, sid, tok, b, 1)
              \/ FinalizeAs(1, sid, tok))
          => /\ req'[1].pc = "done"
             /\ req'[1].resp # "ok"]_vars

\* C36: an ingest on the path of session S (precheck or anti_cheat_emit)
\* stores only events whose sessionId is S, and leaves the event log of
\* every other session as it was, whatever the events of the body say.
C36_IngestFrame ==
    [][\A r \in Slots :
          req[r].pc \in {"pc_insert", "ac_insert"}
          => /\ \A i \in (Len(events) + 1)..Len(events') :
                  events'[i].sessionId = req[r].sid
             /\ \A other \in SessionIds \ {req[r].sid} :
                  {i \in 1..Len(events') : events'[i].sessionId = other} = EventsOf(other)]_vars

\* the strikes stored for session sid with type t
StrikesOfType(sid, t) == {i \in StrikesOf(sid) : strikes[i].type = t}

\* no anti_cheat_emit request for sid is between its steps
NoIngest(sid) ==
    \A r \in Slots : ~(req[r].op = "anti_cheat_emit" /\ req[r].sid = sid /\ ~Free(r))

\* C37: whenever no anti-cheat ingest for a session is in progress, each of
\* its policyCounters equals the number of its stored strikes of that type.
C37_CountersMatchStrikes ==
    \A sid \in DOMAIN sessions :
        NoIngest(sid) =>
            \A t \in StrikeTypes :
                sessions[sid].policyCounters[t] = Cardinality(StrikesOfType(sid, t))

\* the type of the event stored last (the one event of the batch of the
\* ingest that is being handled, when requests run one at a time)
LastEventType == events[Len(events)].type

C39_OwnerOnly ==
    [][\A sid \in DOMAIN sessions, c \in tokens :
          (/\ c.aud = "session"
           /\ c.sub # sessions[sid].userId
           /\ \/ StartAs(1, sid, c)
              \/ RefreshTokensAs(1, sid, c)
              \/ IssueAcetAs(1, sid, c)
              \/ IssueAiptAs(1, sid, c))
          => /\ req'[1].pc = "done"
             /\ req'[1].resp # "ok"
             /\ tokens' = tokens
             /\ sessions' = sessions]_vars

\* C40: the answer a submit_answer request stores on path session S has
\* sessionId = S and names a question of S; a request whose body names
\* another session or a question that is not one of S stores nothing and
\* leaves the awaitingAnswer flag of S as it was.
C40_AnswerBelongsToPath ==
    [][\A r \in Slots :
         LET S == req[r].sid
             belongs == req[r].bsid = S /\ QuestionFound(req[r].qid, S)
         IN /\ (AnswerAt(r, "sa_insert") /\ req'[r] # req[r]) =>
                  IF belongs
                  THEN /\ answers'[Len(answers')].sessionId = S
                       /\ QuestionFound(answers'[Len(answers')].questionId, S)
                  ELSE answers' = answers
            /\ (AnswerAt(r, "sa_update") /\ req'[r] # req[r] /\ ~belongs) =>
                  sessions'[S].awaitingAnswer = sessions[S].awaitingAnswer]_vars

====
